---------------------------- MODULE Spec2Model ----------------------------
(***************************************************************************)
(* A model of the grype_me GitHub Action (Go).  One run of the action is   *)
(* the sequential program run() of main.go: determineScanTarget (scanner.go*)
(* and git.go), updateGrypeDB, executeScan, processResults and the deferred*)
(* cleanupWorktree.                                                        *)
(*                                                                         *)
(* Go strings are modelled as sequences of code points (runes), so that    *)
(* strings.ToLower, TrimSpace, Contains, HasPrefix, Split and the path     *)
(* functions are computed the way the library computes them.  Errors are   *)
(* modelled by the leading words of their messages; NoErr is Go's nil.     *)
(***************************************************************************)
EXTENDS Integers, Sequences, FiniteSets, TLC

VARIABLES
    config,       \* the Config loaded by loadConfig (immutable during a run)
    pc,           \* position of the run
    scanMode,     \* determineScanTarget: the trimmed, defaulted scan mode
    ref,          \* argument of the pending checkoutToWorktree call
    listedTags,   \* the repository's tags as `git tag` listed them
    tags,         \* getLatestReleaseTag: the list parsed from that output
    target,       \* determineScanTarget: returned target
    tempDir,      \* determineScanTarget: returned temp dir
    err,          \* error returned by the function that returned last
    tmpDirs,      \* file system: temporary directories that exist
    worktrees,    \* git: registered worktrees (path -> ref)
    gitLog,       \* git sub-commands executed so far, in order
    fsLog,        \* file system calls made so far, in order
    warnings,     \* the "Warning:" lines printed so far, in order
    env,          \* process environment: workspace, working directory, GITHUB_OUTPUT
    deferred,     \* run: cleanupWorktree(tempDir) is deferred
    cleanupCalls, \* number of cleanupWorktree calls so far
    scratch,      \* executeScan's scratch file: none, empty, json, garbage, removed
    grype,        \* scanner calls: db updates, scans, last outcome, file after it
    report,       \* executeScan: <<>> or <<the severities of the parsed matches>>
    gist,         \* gist PATCH requests sent and the last result
    outputs,      \* CI step outputs: how far they were written, and the lines
    summaryPrinted, \* printSummary has run
    runErr,       \* the error run returns (NoErr: exit code 0)
    arg,          \* input of a pure function under check
    res           \* its result: <<>> before the call, <<value>> after

targetLocals == <<scanMode, ref, listedTags, tags>>

scanVars == <<env, deferred, cleanupCalls, scratch, grype, report, gist, outputs,
              summaryPrinted, runErr>>

vars == <<config, pc, scanMode, ref, listedTags, tags, target, tempDir, err,
          tmpDirs, worktrees, gitLog, fsLog, warnings, scanVars, arg, res>>

(***************************************************************************)
(* Bounds of the model.                                                    *)
(***************************************************************************)
MaxRefLen == 3
MaxTags == 3

(***************************************************************************)
(* Strings.                                                                *)
(***************************************************************************)
\* Go's nil error; an error is the chain of its messages, outermost first
NoErr == <<>>

Wrap(msg, e) == <<msg>> \o e

EmptyStr == <<>>

\* strings.HasPrefix, HasSuffix, Contains over rune sequences
HasPrefix(s, p) == Len(s) >= Len(p) /\ SubSeq(s, 1, Len(p)) = p

HasSuffix(s, p) == Len(s) >= Len(p) /\ SubSeq(s, Len(s) - Len(p) + 1, Len(s)) = p

Contains(s, p) ==
    \E i \in 1..(Len(s) - Len(p) + 1) : SubSeq(s, i, i + Len(p) - 1) = p

\* unicode.ToLower restricted to the runes the model uses (ASCII letters)
LowerRune(c) == IF c >= 65 /\ c <= 90 THEN c + 32 ELSE c

ToLower(s) == [i \in 1..Len(s) |-> LowerRune(s[i])]

\* unicode.IsSpace for the Latin-1 range: \t \n \v \f \r, space, NEL, NBSP
IsSpace(c) == c \in {9, 10, 11, 12, 13, 32, 133, 160}

RECURSIVE TrimLeft(_)
TrimLeft(s) ==
    IF s # <<>> /\ IsSpace(Head(s)) THEN TrimLeft(Tail(s)) ELSE s

RECURSIVE TrimRight(_)
TrimRight(s) ==
    IF s # <<>> /\ IsSpace(s[Len(s)])
    THEN TrimRight(SubSeq(s, 1, Len(s) - 1))
    ELSE s

TrimSpace(s) == TrimRight(TrimLeft(s))

TrimPrefix(s, p) ==
    IF HasPrefix(s, p) THEN SubSeq(s, Len(p) + 1, Len(s)) ELSE s

\* index of the first rune c in s, 0 when there is none
IndexRune(s, c) ==
    IF \E i \in 1..Len(s) : s[i] = c
    THEN CHOOSE i \in 1..Len(s) : s[i] = c /\ \A j \in 1..(i - 1) : s[j] # c
    ELSE 0

\* strings.Split(s, sep) for a one-rune separator
RECURSIVE Split(_, _)
Split(s, c) ==
    LET i == IndexRune(s, c)
    IN  IF i = 0 THEN <<s>>
        ELSE <<SubSeq(s, 1, i - 1)>> \o Split(SubSeq(s, i + 1, Len(s)), c)

\* strings.SplitN(s, sep, 2) for a one-rune separator
SplitN2(s, c) ==
    LET i == IndexRune(s, c)
    IN  IF i = 0 THEN <<s>>
        ELSE <<SubSeq(s, 1, i - 1), SubSeq(s, i + 1, Len(s))>>

\* the spellings of a lower-case word in every letter case
CaseVariants(s) ==
    {[i \in 1..Len(s) |-> IF i \in U THEN s[i] - 32 ELSE s[i]] :
        U \in SUBSET (1..Len(s))}

\* all strings over alphabet A of length at most n
StringsUpTo(A, n) == UNION {[1..k -> A] : k \in 0..n}

(***************************************************************************)
(* git.go: validateRefName.                                                *)
(***************************************************************************)
\* []string{"..", "~", "^", ":", "?", "*", "[", "\\", " "}
invalidPatterns ==
    <<(<<46, 46>>), (<<126>>), (<<94>>), (<<58>>), (<<63>>), (<<42>>),
      (<<91>>), (<<92>>), (<<32>>)>>

\* the same list with "[" forgotten
invalidPatternsNoBracket ==
    <<(<<46, 46>>), (<<126>>), (<<94>>), (<<58>>), (<<63>>), (<<42>>),
      (<<92>>), (<<32>>)>>

validateRefNameWith(patterns, r) ==
    IF r = EmptyStr THEN <<"ref name cannot be empty">>
    ELSE IF \E i \in 1..Len(r) : r[i] < 32 \/ r[i] = 127
         THEN <<"ref contains invalid control character">>
    ELSE IF \E k \in 1..Len(patterns) : Contains(r, patterns[k])
         THEN <<"ref contains invalid pattern">>
    ELSE IF \/ HasPrefix(r, <<46>>) \/ HasSuffix(r, <<46>>)
            \/ HasPrefix(r, <<47>>) \/ HasSuffix(r, <<47>>)
         THEN <<"ref cannot start or end with . or /">>
    ELSE NoErr

validateRefNameLax(r) == validateRefNameWith(invalidPatternsNoBracket, r)

validateRefName(r) == validateRefNameWith(invalidPatterns, r)

(***************************************************************************)
(* path/filepath (Unix): Clean, Join, IsAbs, Abs and Rel, computed the way *)
(* the library computes them, as used by output.go.                        *)
(***************************************************************************)
Slash == <<47>>
StrDot == <<46>>
StrDotDot == <<46, 46>>

IsAbs(path) == HasPrefix(path, Slash)

\* Clean's `out.w--; for out.w > dotdot && out.index(out.w) != '/' { out.w-- }`
\* on the buffer buf with write position w (buf[w + 1] is out.index(out.w))
RECURSIVE backtrack(_, _, _)
backtrack(buf, w, dotdot) ==
    IF w > dotdot /\ buf[w + 1] # 47
    THEN backtrack(buf, w - 1, dotdot)
    ELSE SubSeq(buf, 1, w)

\* end (exclusive, 1-based) of the path element starting at r
RECURSIVE elementEnd(_, _)
elementEnd(path, r) ==
    IF r <= Len(path) /\ path[r] # 47 THEN elementEnd(path, r + 1) ELSE r

\* the loop of filepath.Clean; r is the 1-based read position
RECURSIVE cleanLoop(_, _, _, _, _)
cleanLoop(path, rooted, r, out, dotdot) ==
    LET n == Len(path)
    IN  IF r > n THEN out
        ELSE IF path[r] = 47 THEN cleanLoop(path, rooted, r + 1, out, dotdot)
        ELSE IF path[r] = 46 /\ (r = n \/ path[r + 1] = 47)
        THEN cleanLoop(path, rooted, r + 1, out, dotdot)
        ELSE IF /\ path[r] = 46 /\ r + 1 <= n /\ path[r + 1] = 46
                /\ (r + 1 = n \/ path[r + 2] = 47)
        THEN IF Len(out) > dotdot
             THEN cleanLoop(path, rooted, r + 2,
                            backtrack(out, Len(out) - 1, dotdot), dotdot)
             ELSE IF ~rooted
             THEN LET o == (IF Len(out) > 0 THEN out \o Slash ELSE out) \o StrDotDot
                  IN  cleanLoop(path, rooted, r + 2, o, Len(o))
             ELSE cleanLoop(path, rooted, r + 2, out, dotdot)
        ELSE LET e == elementEnd(path, r)
                 sep == IF (rooted /\ Len(out) # 1) \/ (~rooted /\ Len(out) # 0)
                        THEN Slash ELSE <<>>
             IN  cleanLoop(path, rooted, e, out \o sep \o SubSeq(path, r, e - 1), dotdot)

Clean(path) ==
    IF path = EmptyStr THEN StrDot
    ELSE LET rooted == path[1] = 47
             out == IF rooted THEN cleanLoop(path, TRUE, 2, Slash, 1)
                    ELSE cleanLoop(path, FALSE, 1, <<>>, 0)
         IN  IF out = <<>> THEN StrDot ELSE out

\* filepath.Join of two elements
Join(a, b) ==
    IF a = EmptyStr /\ b = EmptyStr THEN EmptyStr
    ELSE IF a = EmptyStr THEN Clean(b)
    ELSE IF b = EmptyStr THEN Clean(a)
    ELSE Clean(a \o Slash \o b)

\* filepath.Abs with the working directory cwd (os.Getwd does not fail)
Abs(path, cwd) == IF IsAbs(path) THEN Clean(path) ELSE Join(cwd, path)

\* number of '/' in s
RECURSIVE countSlash(_)
countSlash(s) ==
    IF s = <<>> THEN 0
    ELSE (IF Head(s) = 47 THEN 1 ELSE 0) + countSlash(Tail(s))

RECURSIVE repeatUp(_)
repeatUp(k) == IF k = 0 THEN <<>> ELSE Slash \o StrDotDot \o repeatUp(k - 1)

\* the element-wise comparison loop of filepath.Rel; positions are 0-based
\* as in the source, b0/bi into base, t0/ti into targ; returns <<b0, bi, t0>>
RECURSIVE relLoop(_, _, _, _, _, _)
relLoop(base, targ, b0, bi, t0, ti) ==
    LET bl == Len(base)
        tl == Len(targ)
    IN  IF ~(bi < bl /\ ti < tl) THEN <<b0, bi, t0>>
        ELSE LET bj == elementEnd(base, bi + 1) - 1
                 tj == elementEnd(targ, ti + 1) - 1
             IN  IF SubSeq(targ, t0 + 1, tj) # SubSeq(base, b0 + 1, bj)
                 THEN <<b0, bj, t0>>
                 ELSE LET bk == IF bj < bl THEN bj + 1 ELSE bj
                          tk == IF tj < tl THEN tj + 1 ELSE tj
                      IN  relLoop(base, targ, bk, bk, tk, tk)

\* filepath.Rel(basepath, targpath): [path, err]
Rel(basepath, targpath) ==
    LET baseC == Clean(basepath)
        targ == Clean(targpath)
        base == IF baseC = StrDot THEN EmptyStr ELSE baseC
    IN  IF targ = baseC THEN [path |-> StrDot, err |-> NoErr]
        ELSE IF IsAbs(base) # IsAbs(targ)
        THEN [path |-> EmptyStr, err |-> <<"Rel: can't make relative">>]
        ELSE LET p == relLoop(base, targ, 0, 0, 0, 0)
                 b0 == p[1]
                 bi == p[2]
                 t0 == p[3]
                 bl == Len(base)
                 tl == Len(targ)
             IN  IF SubSeq(base, b0 + 1, bi) = StrDotDot
                 THEN [path |-> EmptyStr, err |-> <<"Rel: can't make relative">>]
                 ELSE IF b0 # bl
                 THEN [path |-> StrDotDot
                                \o repeatUp(countSlash(SubSeq(base, b0 + 1, bl)))
                                \o (IF t0 # tl THEN Slash \o SubSeq(targ, t0 + 1, tl)
                                    ELSE <<>>),
                       err |-> NoErr]
                 ELSE [path |-> SubSeq(targ, t0 + 1, tl), err |-> NoErr]

(***************************************************************************)
(* String constants of the source and of the inputs.                       *)
(***************************************************************************)
StrHead == <<104, 101, 97, 100>>  \* "head"
StrLatestRelease ==
    <<108, 97, 116, 101, 115, 116, 95, 114, 101, 108, 101, 97, 115, 101>>
    \* "latest_release"

StrDirPrefix == <<100, 105, 114, 58>>  \* "dir:"
StrFilePrefix == <<102, 105, 108, 101, 58>>  \* "file:"
StrSbomPrefix == <<115, 98, 111, 109, 58>>  \* "sbom:"
StrDirDot == <<100, 105, 114, 58, 46>>  \* "dir:."
StrTmpWorktree ==
    <<47, 116, 109, 112, 47, 103, 114, 121, 112, 101, 45, 115, 99, 97, 110, 45, 49>>
    \* "/tmp/grype-scan-1", the directory os.MkdirTemp("", "grype-scan-*") makes

\* inputs
StrMain == <<109, 97, 105, 110>>  \* "main"
StrBadRef == <<97, 46, 46, 98>>  \* "a..b"
StrV100 == <<118, 49, 46, 48, 46, 48>>  \* "v1.0.0"
StrV200 == <<118, 50, 46, 48, 46, 48>>  \* "v2.0.0"
StrV210rc1 == <<118, 50, 46, 49, 46, 48, 45, 114, 99, 49>>  \* "v2.1.0-rc1"
StrV300alpha == <<118, 51, 46, 48, 46, 48, 45, 97, 108, 112, 104, 97>>  \* "v3.0.0-alpha"
StrRelease10 == <<114, 101, 108, 101, 97, 115, 101, 45, 49, 46, 48>>  \* "release-1.0"
StrBadTag == <<118, 49, 46, 46, 48>>  \* "v1..0"
StrImage == <<97, 108, 112, 105, 110, 101, 58, 108, 97, 116, 101, 115, 116>>  \* "alpine:latest"
StrSrcPath == <<46, 47, 115, 114, 99>>  \* "./src"
StrSbomFile == <<115, 98, 111, 109, 46, 106, 115, 111, 110>>  \* "sbom.json"

(***************************************************************************)
(* scanner.go: the pure part of determineScanTarget.                       *)
(***************************************************************************)
RECURSIVE countNonEmpty(_)
countNonEmpty(values) ==
    IF values = <<>> THEN 0
    ELSE (IF Head(values) # EmptyStr THEN 1 ELSE 0) + countNonEmpty(Tail(values))

\* validateArtifactModes without its second test
validateArtifactModesNoScanTest(c) ==
    IF countNonEmpty(<<c.Image, c.Path, c.SBOM>>) > 1
    THEN <<"only one of image, path, or sbom can be specified">>
    ELSE NoErr

validateArtifactModes(c) ==
    LET artifactModeCount == countNonEmpty(<<c.Image, c.Path, c.SBOM>>)
    IN  IF artifactModeCount > 1
        THEN <<"only one of image, path, or sbom can be specified">>
        ELSE IF artifactModeCount > 0 /\ c.Scan # EmptyStr
        THEN <<"scan cannot be used together with image, path, or sbom">>
        ELSE NoErr

\* what os.Stat finds at a path
PathStats == {"missing", "dir", "file"}

\* buildPathTarget with "dir:" for every existing path
buildPathTargetAlwaysDir(path, stat) ==
    IF stat = "missing"
    THEN [target |-> EmptyStr, err |-> <<"path not found">>]
    ELSE [target |-> StrDirPrefix \o path, err |-> NoErr]

buildPathTarget(path, stat) ==
    IF stat = "missing"
    THEN [target |-> EmptyStr, err |-> <<"path not found">>]
    ELSE IF stat = "dir"
    THEN [target |-> StrDirPrefix \o path, err |-> NoErr]
    ELSE [target |-> StrFilePrefix \o path, err |-> NoErr]

getArtifactTarget(c, stat) ==
    IF c.Image # EmptyStr THEN [target |-> c.Image, err |-> NoErr]
    ELSE IF c.Path # EmptyStr THEN buildPathTarget(c.Path, stat)
    ELSE IF c.SBOM # EmptyStr
    THEN [target |-> StrSbomPrefix \o c.SBOM, err |-> NoErr]
    ELSE [target |-> EmptyStr, err |-> NoErr]

\* the default of a blank scan mode, wrongly "head"
defaultScanModeHead(scan) ==
    LET trimmed == TrimSpace(scan)
    IN  IF trimmed = EmptyStr THEN StrHead ELSE trimmed

\* determineScanTarget: scanMode := TrimSpace(config.Scan), "latest_release" if blank
defaultScanMode(scan) ==
    LET trimmed == TrimSpace(scan)
    IN  IF trimmed = EmptyStr THEN StrLatestRelease ELSE trimmed

(***************************************************************************)
(* git.go: release resolution.                                             *)
(***************************************************************************)
isPreReleaseTag(tag) ==
    LET normalized == TrimPrefix(TrimPrefix(tag, <<118>>), <<86>>)
        parts == SplitN2(normalized, 45)
    IN  IF Len(parts) < 2 THEN FALSE
        ELSE LET versionPart == parts[1]
             IN  IF \E i \in 1..Len(versionPart) :
                        /\ versionPart[i] # 46
                        /\ (versionPart[i] < 48 \/ versionPart[i] > 57)
                 THEN FALSE
                 ELSE Len(versionPart) > 0 /\ Len(parts[2]) > 0

\* what `git tag --sort=-v:refname` prints for a tag list: one tag per line
RECURSIVE gitTagOutput(_)
gitTagOutput(tagList) ==
    IF tagList = <<>> THEN EmptyStr
    ELSE Head(tagList) \o <<10>> \o gitTagOutput(Tail(tagList))

\* the tag list parsed from the command's output
parseTagOutput(output) == Split(TrimSpace(output), 10)

\* the choice of getLatestReleaseTag that takes the first tag, stable or not
pickLatestFirst(tagsParsed) ==
    IF Len(tagsParsed) = 0 \/ tagsParsed[1] = EmptyStr
    THEN [tag |-> EmptyStr, err |-> <<"no release tags found in repository">>,
          warned |-> FALSE]
    ELSE [tag |-> tagsParsed[1], err |-> NoErr, warned |-> FALSE]

\* getLatestReleaseTag accepting an empty tag list
pickLatestNoCheck(tagsParsed) ==
    IF \E i \in 1..Len(tagsParsed) : ~isPreReleaseTag(tagsParsed[i])
    THEN LET i == CHOOSE i \in 1..Len(tagsParsed) :
                      /\ ~isPreReleaseTag(tagsParsed[i])
                      /\ \A j \in 1..(i - 1) : isPreReleaseTag(tagsParsed[j])
         IN  [tag |-> tagsParsed[i], err |-> NoErr, warned |-> FALSE]
    ELSE [tag |-> tagsParsed[1], err |-> NoErr, warned |-> TRUE]

\* getLatestReleaseTag from the parsed tag list on: the first stable tag,
\* tags[0] with a warning when every tag is a pre-release
pickLatest(tagsParsed) ==
    IF Len(tagsParsed) = 0 \/ tagsParsed[1] = EmptyStr
    THEN [tag |-> EmptyStr, err |-> <<"no release tags found in repository">>,
          warned |-> FALSE]
    ELSE IF \E i \in 1..Len(tagsParsed) : ~isPreReleaseTag(tagsParsed[i])
    THEN LET i == CHOOSE i \in 1..Len(tagsParsed) :
                      /\ ~isPreReleaseTag(tagsParsed[i])
                      /\ \A j \in 1..(i - 1) : isPreReleaseTag(tagsParsed[j])
         IN  [tag |-> tagsParsed[i], err |-> NoErr, warned |-> FALSE]
    ELSE [tag |-> tagsParsed[1], err |-> NoErr, warned |-> TRUE]

(***************************************************************************)
(* The idle values of the run's variables, for the specifications that     *)
(* exercise one pure function.                                             *)
(***************************************************************************)
StrMedium == <<109, 101, 100, 105, 117, 109>>  \* "medium"

\* config.go, loadConfig: the Config of a run without inputs
DefaultConfig ==
    [Scan |-> EmptyStr, Image |-> EmptyStr, Path |-> EmptyStr,
     SBOM |-> EmptyStr, FailBuild |-> FALSE, SeverityCutoff |-> StrMedium,
     OutputFile |-> EmptyStr, DBUpdate |-> FALSE, GistToken |-> EmptyStr,
     GistID |-> EmptyStr, GistFilename |-> EmptyStr]

StrCwd == <<47, 99, 119, 100>>  \* "/cwd"

\* the environment of a run outside GitHub Actions; remote tells whether
\* `git fetch` can reach the repository's remote
DefaultEnv ==
    [containerWs |-> FALSE, githubWorkspace |-> EmptyStr, cwd |-> StrCwd,
     githubOutput |-> FALSE, remote |-> TRUE]

NoGrype == [dbRuns |-> 0, runs |-> 0, outcome |-> "none", fileAfter |-> "none"]

NoGist ==
    [calls |-> 0, result |-> "none", badgeURL |-> EmptyStr, reportURL |-> EmptyStr]

NoOutputs == [written |-> "none", lines |-> <<>>]

ScanIdle ==
    /\ env = DefaultEnv
    /\ deferred = FALSE
    /\ cleanupCalls = 0
    /\ scratch = "none"
    /\ grype = NoGrype
    /\ report = <<>>
    /\ gist = NoGist
    /\ outputs = NoOutputs
    /\ summaryPrinted = FALSE
    /\ runErr = NoErr

RunIdle ==
    /\ config = DefaultConfig
    /\ pc = "idle"
    /\ scanMode = EmptyStr
    /\ ref = EmptyStr
    /\ listedTags = <<>>
    /\ tags = <<>>
    /\ target = EmptyStr
    /\ tempDir = EmptyStr
    /\ err = NoErr
    /\ tmpDirs = {}
    /\ worktrees = {}
    /\ gitLog = <<>>
    /\ fsLog = <<>>
    /\ warnings = <<>>
    /\ ScanIdle

runVars == <<config, pc, scanMode, ref, listedTags, tags, target, tempDir, err,
             tmpDirs, worktrees, gitLog, fsLog, warnings, scanVars>>

(***************************************************************************)
(* Target resolution: determineScanTarget (scanner.go) with handleRepoScan,*)
(* getLatestReleaseTag and checkoutToWorktree (git.go).                    *)
(***************************************************************************)
GitCmd(cmd, a) == [cmd |-> cmd, arg |-> a]

FsCall(op, path, result) == [op |-> op, path |-> path, result |-> result]

\* handleRepoScan's return with a failed checkout still handing out the path
repoScanResultKeepDir(scanDir, e) ==
    IF e # NoErr
    THEN [target |-> EmptyStr, tempDir |-> StrTmpWorktree,
          err |-> Wrap("failed to checkout", e)]
    ELSE [target |-> StrDirPrefix \o scanDir, tempDir |-> scanDir, err |-> NoErr]

\* handleRepoScan: what it returns after checkoutToWorktree returned (scanDir, e)
repoScanResult(scanDir, e) ==
    IF e # NoErr
    THEN [target |-> EmptyStr, tempDir |-> EmptyStr,
          err |-> Wrap("failed to checkout", e)]
    ELSE [target |-> StrDirPrefix \o scanDir, tempDir |-> scanDir, err |-> NoErr]

\* determineScanTarget returns (t, d, e) to its caller
ReturnTarget(t, d, e) ==
    /\ target' = t
    /\ tempDir' = d
    /\ err' = e
    /\ pc' = "targetReturned"

ReturnRepoScan(scanDir, e) ==
    LET r == repoScanResult(scanDir, e)
    IN  ReturnTarget(r.target, r.tempDir, r.err)

\* tag lists `git tag --sort=-v:refname` can print: sub-lists of the tags
\* below, which are in descending version order, of at most MaxTags tags
TagUniverse ==
    <<StrV300alpha, StrV210rc1, StrV200, StrV100, StrBadTag, StrRelease10>>

TagLists ==
    {SelectSeq(TagUniverse, LAMBDA t : t \in S) :
        S \in {T \in SUBSET {TagUniverse[i] : i \in 1..Len(TagUniverse)} :
                  Cardinality(T) <= MaxTags}}

\* determineScanTarget up to the dispatch of handleRepoScan; the "head" case
\* returns at once, the other two go on in the next two actions
DetermineScanTarget ==
    /\ pc = "determineScanTarget"
    /\ LET e == validateArtifactModes(config)
       IN  IF e # NoErr
           THEN /\ ReturnTarget(EmptyStr, EmptyStr, e)
                /\ UNCHANGED <<scanMode, ref, gitLog, fsLog, warnings>>
           ELSE \E stat \in (IF config.Image = EmptyStr /\ config.Path # EmptyStr
                             THEN PathStats ELSE {"unused"}) :
                LET a == getArtifactTarget(config, stat)
                    statCall == IF stat = "unused" THEN <<>>
                                ELSE <<FsCall("Stat", config.Path, stat)>>
                IN  IF a.err # NoErr
                    THEN /\ ReturnTarget(EmptyStr, EmptyStr, a.err)
                         /\ fsLog' = fsLog \o statCall
                         /\ UNCHANGED <<scanMode, ref, gitLog, warnings>>
                    ELSE IF a.target # EmptyStr
                    THEN /\ ReturnTarget(a.target, EmptyStr, NoErr)
                         /\ fsLog' = fsLog \o statCall
                         /\ UNCHANGED <<scanMode, ref, gitLog, warnings>>
                    ELSE \* handleRepoScan(scanMode)
                         \E safeDir \in {"ok", "getwd failed", "git config failed"} :
                         LET mode == defaultScanMode(config.Scan)
                         IN  /\ scanMode' = mode
                             /\ UNCHANGED fsLog
                             /\ gitLog' = IF safeDir = "getwd failed" THEN gitLog
                                          ELSE Append(gitLog, GitCmd("config", EmptyStr))
                             /\ warnings' = IF safeDir = "ok" THEN warnings
                                            ELSE Append(warnings, "safe.directory")
                             /\ IF ToLower(mode) = StrHead
                                THEN /\ ReturnTarget(StrDirDot, EmptyStr, NoErr)
                                     /\ UNCHANGED ref
                                ELSE IF ToLower(mode) = StrLatestRelease
                                THEN /\ pc' = "getLatestReleaseTag"
                                     /\ UNCHANGED <<ref, target, tempDir, err>>
                                ELSE /\ pc' = "checkoutToWorktree"
                                     /\ ref' = mode
                                     /\ UNCHANGED <<target, tempDir, err>>
    /\ UNCHANGED <<config, listedTags, tags, tmpDirs, worktrees, scanVars, arg, res>>

\* getLatestReleaseTag printing nothing when the fetch fails
fetchWarningSilent(fetchOk) == <<>>

\* getLatestReleaseTag: what a failed `git fetch --tags --force` prints
fetchWarning(fetchOk) ==
    IF fetchOk THEN <<>> ELSE <<"Could not fetch tags">>

\* getLatestReleaseTag, called by handleRepoScan's "latest_release" case
GetLatestReleaseTag ==
    /\ pc = "getLatestReleaseTag"
    /\ \E lookPath \in BOOLEAN, fetchOk \in {env.remote}, listOk \in BOOLEAN,
          tagList \in TagLists :
          IF ~lookPath
          THEN /\ ReturnTarget(EmptyStr, EmptyStr,
                     <<"could not determine latest release", "git not found">>)
               /\ UNCHANGED <<listedTags, tags, ref, gitLog, warnings>>
          ELSE /\ gitLog' = gitLog \o <<GitCmd("fetch", EmptyStr), GitCmd("tag", EmptyStr)>>
               /\ IF ~listOk
                  THEN /\ ReturnTarget(EmptyStr, EmptyStr,
                             <<"could not determine latest release", "failed to list tags">>)
                       /\ warnings' = warnings \o fetchWarning(fetchOk)
                       /\ UNCHANGED <<listedTags, tags, ref>>
                  ELSE LET parsed == parseTagOutput(gitTagOutput(tagList))
                           p == pickLatest(parsed)
                       IN  /\ listedTags' = tagList
                           /\ tags' = parsed
                           /\ warnings' =
                                 warnings
                                 \o fetchWarning(fetchOk)
                                 \o (IF p.warned THEN <<"All tags appear to be pre-release">>
                                     ELSE <<>>)
                           /\ IF p.err # NoErr
                              THEN /\ ReturnTarget(EmptyStr, EmptyStr,
                                         Wrap("could not determine latest release", p.err))
                                   /\ UNCHANGED ref
                              ELSE /\ ref' = p.tag
                                   /\ pc' = "checkoutToWorktree"
                                   /\ UNCHANGED <<target, tempDir, err>>
    /\ UNCHANGED <<config, scanMode, tmpDirs, worktrees, fsLog, scanVars, arg, res>>

\* checkoutToWorktree going on to git without validating the ref
checkoutRefErrorUnchecked(r) == NoErr

\* checkoutToWorktree: the error of its first step, the validation of the ref
checkoutRefError(r) ==
    LET e == validateRefName(r)
    IN  IF e # NoErr THEN Wrap("invalid ref", e) ELSE NoErr

\* checkoutToWorktree(ref) and the return of handleRepoScan to its caller
CheckoutToWorktree ==
    /\ pc = "checkoutToWorktree"
    /\ LET e == checkoutRefError(ref)
       IN  IF e # NoErr
           THEN /\ ReturnRepoScan(EmptyStr, e)
                /\ UNCHANGED <<tmpDirs, worktrees, gitLog, fsLog>>
           ELSE \E mkdirOk \in BOOLEAN, addOk \in BOOLEAN, removeOk \in BOOLEAN :
                IF ~mkdirOk
                THEN /\ ReturnRepoScan(EmptyStr, <<"failed to create temp directory">>)
                     /\ fsLog' = Append(fsLog, FsCall("MkdirTemp", EmptyStr, "failed"))
                     /\ UNCHANGED <<tmpDirs, worktrees, gitLog>>
                ELSE /\ gitLog' = Append(gitLog, GitCmd("worktree add", ref))
                     /\ IF addOk
                        THEN /\ tmpDirs' = tmpDirs \cup {StrTmpWorktree}
                             /\ worktrees' = worktrees
                                   \cup {[path |-> StrTmpWorktree, ref |-> ref]}
                             /\ fsLog' = Append(fsLog,
                                   FsCall("MkdirTemp", StrTmpWorktree, "ok"))
                             /\ ReturnRepoScan(StrTmpWorktree, NoErr)
                        ELSE \* _ = os.RemoveAll(tmpDir)
                             /\ tmpDirs' = IF removeOk THEN tmpDirs \ {StrTmpWorktree}
                                           ELSE tmpDirs \cup {StrTmpWorktree}
                             /\ UNCHANGED worktrees
                             /\ fsLog' = fsLog
                                   \o <<FsCall("MkdirTemp", StrTmpWorktree, "ok"),
                                        FsCall("RemoveAll", StrTmpWorktree,
                                               IF removeOk THEN "ok" ELSE "failed")>>
                             /\ ReturnRepoScan(EmptyStr, <<"failed to create worktree">>)
    /\ UNCHANGED <<config, scanMode, ref, listedTags, tags, warnings, scanVars,
                   arg, res>>

(***************************************************************************)
(* SpecTarget: determineScanTarget for every combination of the four       *)
(* target selectors.                                                       *)
(***************************************************************************)
\* values of the scan input: blank ones, "head" and "latest_release" in
\* several spellings, valid refs and an invalid one
ScanInputs ==
    CaseVariants(StrHead)
    \cup {EmptyStr, <<32>>, <<32>> \o StrHead \o <<9>>, StrLatestRelease,
          <<76>> \o Tail(StrLatestRelease), StrMain, StrV100, StrBadRef}

SelectorConfigs ==
    {[DefaultConfig EXCEPT !.Scan = sc, !.Image = im, !.Path = pa, !.SBOM = sb] :
        sc \in ScanInputs, im \in {EmptyStr, StrImage},
        pa \in {EmptyStr, StrSrcPath}, sb \in {EmptyStr, StrSbomFile}}

InitWorld ==
    /\ scanMode = EmptyStr
    /\ ref = EmptyStr
    /\ listedTags = <<>>
    /\ tags = <<>>
    /\ target = EmptyStr
    /\ tempDir = EmptyStr
    /\ err = NoErr
    /\ tmpDirs = {}
    /\ worktrees = {}
    /\ gitLog = <<>>
    /\ fsLog = <<>>
    /\ warnings = <<>>
    /\ deferred = FALSE
    /\ cleanupCalls = 0
    /\ scratch = "none"
    /\ grype = NoGrype
    /\ report = <<>>
    /\ gist = NoGist
    /\ outputs = NoOutputs
    /\ summaryPrinted = FALSE
    /\ runErr = NoErr
    /\ arg = EmptyStr
    /\ res = <<>>

\* with and without a reachable remote
TargetEnvs == {[DefaultEnv EXCEPT !.remote = r] : r \in BOOLEAN}

InitTarget ==
    /\ config \in SelectorConfigs
    /\ env \in TargetEnvs
    /\ pc = "determineScanTarget"
    /\ InitWorld

NextTarget == DetermineScanTarget \/ GetLatestReleaseTag \/ CheckoutToWorktree

SpecTarget == InitTarget /\ [][NextTarget]_vars

(***************************************************************************)
(* scanner.go: calculateStats, shouldFail and the verdict of runGrypeScan. *)
(***************************************************************************)
StrCritical == <<99, 114, 105, 116, 105, 99, 97, 108>>  \* "critical"
StrHigh == <<104, 105, 103, 104>>  \* "high"
StrLow == <<108, 111, 119>>  \* "low"
StrNegligible == <<110, 101, 103, 108, 105, 103, 105, 98, 108, 101>>  \* "negligible"

NoStats ==
    [Total |-> 0, Critical |-> 0, High |-> 0, Medium |-> 0, Low |-> 0, Other |-> 0]

\* one iteration of calculateStats' loop comparing the severity as written
countMatchCaseSensitive(stats, severity) ==
    LET t == [stats EXCEPT !.Total = @ + 1]
    IN  IF severity = StrCritical THEN [t EXCEPT !.Critical = @ + 1]
        ELSE IF severity = StrHigh THEN [t EXCEPT !.High = @ + 1]
        ELSE IF severity = StrMedium THEN [t EXCEPT !.Medium = @ + 1]
        ELSE IF severity = StrLow THEN [t EXCEPT !.Low = @ + 1]
        ELSE [t EXCEPT !.Other = @ + 1]

\* one iteration of calculateStats' loop
countMatch(stats, severity) ==
    LET t == [stats EXCEPT !.Total = @ + 1]
        sev == ToLower(severity)
    IN  IF sev = StrCritical THEN [t EXCEPT !.Critical = @ + 1]
        ELSE IF sev = StrHigh THEN [t EXCEPT !.High = @ + 1]
        ELSE IF sev = StrMedium THEN [t EXCEPT !.Medium = @ + 1]
        ELSE IF sev = StrLow THEN [t EXCEPT !.Low = @ + 1]
        ELSE [t EXCEPT !.Other = @ + 1]

RECURSIVE statsFrom(_, _)
statsFrom(stats, matches) ==
    IF matches = <<>> THEN stats
    ELSE statsFrom(countMatch(stats, Head(matches)), Tail(matches))

calculateStats(matches) == statsFrom(NoStats, matches)

\* shouldFail with the "high" cutoff looking at High only
shouldFailHighOnly(stats, cutoff) ==
    LET c == ToLower(cutoff)
    IN  IF c = StrCritical THEN stats.Critical > 0
        ELSE IF c = StrHigh THEN stats.High > 0
        ELSE IF c = StrMedium
        THEN stats.Critical > 0 \/ stats.High > 0 \/ stats.Medium > 0
        ELSE IF c = StrLow
        THEN stats.Critical > 0 \/ stats.High > 0 \/ stats.Medium > 0 \/ stats.Low > 0
        ELSE IF c = StrNegligible THEN stats.Total > 0
        ELSE stats.Critical > 0 \/ stats.High > 0 \/ stats.Medium > 0

shouldFail(stats, cutoff) ==
    LET c == ToLower(cutoff)
    IN  IF c = StrCritical THEN stats.Critical > 0
        ELSE IF c = StrHigh THEN stats.Critical > 0 \/ stats.High > 0
        ELSE IF c = StrMedium
        THEN stats.Critical > 0 \/ stats.High > 0 \/ stats.Medium > 0
        ELSE IF c = StrLow
        THEN stats.Critical > 0 \/ stats.High > 0 \/ stats.Medium > 0 \/ stats.Low > 0
        ELSE IF c = StrNegligible THEN stats.Total > 0
        ELSE stats.Critical > 0 \/ stats.High > 0 \/ stats.Medium > 0

\* runGrypeScan failing on every non-zero exit
runGrypeScanResultStrict(cmdFailed, fileExists) ==
    IF cmdFailed THEN <<"exit status">> ELSE NoErr

\* runGrypeScan: its result from cmd.Run()'s error and os.Stat(outputPath)
runGrypeScanResult(cmdFailed, fileExists) ==
    IF cmdFailed
    THEN IF fileExists THEN NoErr ELSE <<"exit status">>
    ELSE NoErr

(***************************************************************************)
(* output.go: resolveDestinationPath and validatePathInWorkspace.          *)
(***************************************************************************)
StrContainerWs ==
    <<47, 103, 105, 116, 104, 117, 98, 47, 119, 111, 114, 107, 115, 112, 97, 99, 101>>
    \* "/github/workspace"

\* resolveDestinationPath looking at GITHUB_WORKSPACE before /github/workspace
resolveDestinationPathEnvFirst(destPath, e) ==
    IF IsAbs(destPath) THEN [path |-> destPath, workspace |-> EmptyStr]
    ELSE IF e.githubWorkspace # EmptyStr
    THEN [path |-> Join(e.githubWorkspace, destPath), workspace |-> e.githubWorkspace]
    ELSE IF e.containerWs
    THEN [path |-> Join(StrContainerWs, destPath), workspace |-> StrContainerWs]
    ELSE [path |-> Abs(destPath, e.cwd), workspace |-> EmptyStr]

\* resolveDestinationPath(destPath) in the environment e, whose working
\* directory os.Getwd can tell
resolveDestinationPath(destPath, e) ==
    IF IsAbs(destPath) THEN [path |-> destPath, workspace |-> EmptyStr]
    ELSE IF e.containerWs
    THEN [path |-> Join(StrContainerWs, destPath), workspace |-> StrContainerWs]
    ELSE IF e.githubWorkspace # EmptyStr
    THEN [path |-> Join(e.githubWorkspace, destPath), workspace |-> e.githubWorkspace]
    ELSE [path |-> Abs(destPath, e.cwd), workspace |-> EmptyStr]

\* validatePathInWorkspace rejecting only the relative path ".."
validatePathInWorkspaceDotDotOnly(destPath, workspace, cwd) ==
    LET r == Rel(Abs(Clean(workspace), cwd), Abs(Clean(destPath), cwd))
    IN  IF r.err # NoErr THEN Wrap("failed to compute relative path", r.err)
        ELSE IF r.path = StrDotDot THEN <<"path traversal detected">>
        ELSE NoErr

validatePathInWorkspace(destPath, workspace, cwd) ==
    LET absDest == Abs(Clean(destPath), cwd)
        absWorkspace == Abs(Clean(workspace), cwd)
        r == Rel(absWorkspace, absDest)
    IN  IF r.err # NoErr THEN Wrap("failed to compute relative path", r.err)
        ELSE IF HasPrefix(r.path, StrDotDot \o Slash) \/ r.path = StrDotDot
        THEN <<"path traversal detected">>
        ELSE NoErr

\* filepath.Dir
Dir(path) ==
    LET idx == {i \in 1..Len(path) : path[i] = 47}
    IN  IF idx = {} THEN StrDot
        ELSE Clean(SubSeq(path, 1, CHOOSE i \in idx : \A j \in idx : j <= i))

(***************************************************************************)
(* output.go: formatBadgeMessage, determineBadgeColor and generateBadgeURL.*)
(***************************************************************************)
\* fmt.Sprintf("%d", n)
RECURSIVE digitsOf(_)
digitsOf(n) ==
    IF n < 10 THEN <<48 + n>> ELSE Append(digitsOf(n \div 10), 48 + (n % 10))

Itoa(n) == IF n < 0 THEN <<45>> \o digitsOf(0 - n) ELSE digitsOf(n)

\* strings.Join
RECURSIVE JoinStrings(_, _)
JoinStrings(parts, sep) ==
    IF parts = <<>> THEN EmptyStr
    ELSE IF Len(parts) = 1 THEN parts[1]
    ELSE parts[1] \o sep \o JoinStrings(Tail(parts), sep)

StrSpCritical ==
    <<32, 99, 114, 105, 116, 105, 99, 97, 108>>
    \* " critical"

StrSpHigh ==
    <<32, 104, 105, 103, 104>>
    \* " high"

StrSpMedium ==
    <<32, 109, 101, 100, 105, 117, 109>>
    \* " medium"

StrSpLow ==
    <<32, 108, 111, 119>>
    \* " low"

StrSpOther ==
    <<32, 111, 116, 104, 101, 114>>
    \* " other"

StrBar ==
    <<32, 124, 32>>
    \* " | "

StrZero ==
    <<48>>
    \* "0"

\* formatBadgeMessage listing the "other" bucket after the named ones
formatBadgeMessageOtherAlways(stats) ==
    IF stats.Total = 0 THEN StrZero
    ELSE LET named ==
                 (IF stats.Critical > 0 THEN <<Itoa(stats.Critical) \o StrSpCritical>>
                  ELSE <<>>)
                 \o (IF stats.High > 0 THEN <<Itoa(stats.High) \o StrSpHigh>> ELSE <<>>)
                 \o (IF stats.Medium > 0 THEN <<Itoa(stats.Medium) \o StrSpMedium>>
                     ELSE <<>>)
                 \o (IF stats.Low > 0 THEN <<Itoa(stats.Low) \o StrSpLow>> ELSE <<>>)
             parts == named \o (IF stats.Other > 0
                                THEN <<Itoa(stats.Other) \o StrSpOther>> ELSE <<>>)
         IN  JoinStrings(parts, StrBar)

formatBadgeMessage(stats) ==
    IF stats.Total = 0 THEN StrZero
    ELSE LET named ==
                 (IF stats.Critical > 0 THEN <<Itoa(stats.Critical) \o StrSpCritical>>
                  ELSE <<>>)
                 \o (IF stats.High > 0 THEN <<Itoa(stats.High) \o StrSpHigh>> ELSE <<>>)
                 \o (IF stats.Medium > 0 THEN <<Itoa(stats.Medium) \o StrSpMedium>>
                     ELSE <<>>)
                 \o (IF stats.Low > 0 THEN <<Itoa(stats.Low) \o StrSpLow>> ELSE <<>>)
             parts == IF Len(named) = 0 /\ stats.Other > 0
                      THEN <<Itoa(stats.Other) \o StrSpOther>>
                      ELSE named
         IN  JoinStrings(parts, StrBar)

StrOrange ==
    <<111, 114, 97, 110, 103, 101>>
    \* "orange"

StrYellow ==
    <<121, 101, 108, 108, 111, 119>>
    \* "yellow"

StrYellowGreen ==
    <<121, 101, 108, 108, 111, 119, 103, 114, 101, 101, 110>>
    \* "yellowgreen"

StrBrightGreen ==
    <<98, 114, 105, 103, 104, 116, 103, 114, 101, 101, 110>>
    \* "brightgreen"

\* determineBadgeColor testing High before Critical
determineBadgeColorHighFirst(stats) ==
    IF stats.High > 0 THEN StrOrange
    ELSE IF stats.Critical > 0 THEN StrCritical
    ELSE IF stats.Medium > 0 THEN StrYellow
    ELSE IF stats.Low > 0 \/ stats.Other > 0 THEN StrYellowGreen
    ELSE StrBrightGreen

determineBadgeColor(stats) ==
    IF stats.Critical > 0 THEN StrCritical
    ELSE IF stats.High > 0 THEN StrOrange
    ELSE IF stats.Medium > 0 THEN StrYellow
    ELSE IF stats.Low > 0 \/ stats.Other > 0 THEN StrYellowGreen
    ELSE StrBrightGreen

\* the UTF-8 bytes of a code point below 65536
Utf8Bytes(c) ==
    IF c < 128 THEN <<c>>
    ELSE IF c < 2048 THEN <<192 + (c \div 64), 128 + (c % 64)>>
    ELSE <<224 + (c \div 4096), 128 + ((c \div 64) % 64), 128 + (c % 64)>>

HexDigit(n) == IF n < 10 THEN 48 + n ELSE 55 + n

\* url.PathEscape leaves letters, digits and - _ . ~ $ & + = : @
PathUnescaped(c) ==
    \/ (c >= 48 /\ c <= 57)
    \/ (c >= 65 /\ c <= 90)
    \/ (c >= 97 /\ c <= 122)
    \/ c \in {45, 95, 46, 126, 36, 38, 43, 61, 58, 64}

RECURSIVE escapeBytes(_)
escapeBytes(bytes) ==
    IF bytes = <<>> THEN EmptyStr
    ELSE <<37, HexDigit(Head(bytes) \div 16), HexDigit(Head(bytes) % 16)>>
         \o escapeBytes(Tail(bytes))

\* url.PathEscape
RECURSIVE PathEscape(_)
PathEscape(s) ==
    IF s = <<>> THEN EmptyStr
    ELSE (IF PathUnescaped(Head(s)) THEN <<Head(s)>>
          ELSE escapeBytes(Utf8Bytes(Head(s))))
         \o PathEscape(Tail(s))

\* strings.ReplaceAll(s, "-", "--")
RECURSIVE doubleDashes(_)
doubleDashes(s) ==
    IF s = <<>> THEN EmptyStr
    ELSE (IF Head(s) = 45 THEN <<45, 45>> ELSE <<Head(s)>>) \o doubleDashes(Tail(s))

\* extractDBDate
extractDBDate(timestamp) ==
    IF Len(timestamp) >= 10 THEN SubSeq(timestamp, 1, 10) ELSE timestamp

StrLabelPrefix ==
    <<9994, 32, 103, 114, 121, 112, 101, 32>>
    \* the fist sign, " grype "

StrCvesIn ==
    <<32, 67, 86, 69, 115, 32, 105, 110, 32>>
    \* " CVEs in "

StrDb ==
    <<100, 98, 32>>
    \* "db "

StrColonSp ==
    <<58, 32>>
    \* ": "

StrStaticBadge ==
    <<104, 116, 116, 112, 115, 58, 47, 47, 105, 109, 103, 46, 115, 104, 105,
     101, 108, 100, 115, 46, 105, 111, 47, 98, 97, 100, 103, 101, 47>>
    \* "https://img.shields.io/badge/"

StrEndpointBadge ==
    <<104, 116, 116, 112, 115, 58, 47, 47, 105, 109, 103, 46, 115, 104, 105,
     101, 108, 100, 115, 46, 105, 111, 47, 101, 110, 100, 112, 111, 105, 110,
     116, 63, 117, 114, 108, 61>>
    \* "https://img.shields.io/endpoint?url="


\* buildBadgeLabel
buildBadgeLabel(grypeVersion) == StrLabelPrefix \o grypeVersion

\* generateBadgeURL
generateBadgeURL(stats, label, dbBuilt, scanModeLabel) ==
    LET counts == formatBadgeMessage(stats)
        plain == counts \o StrCvesIn \o scanModeLabel
        message == IF dbBuilt # EmptyStr /\ extractDBDate(dbBuilt) # EmptyStr
                   THEN StrDb \o doubleDashes(extractDBDate(dbBuilt)) \o StrColonSp
                        \o plain
                   ELSE plain
    IN  StrStaticBadge \o PathEscape(label) \o <<45>> \o PathEscape(message)
        \o <<45>> \o determineBadgeColor(stats)

(***************************************************************************)
(* gist.go: stripCommitHash, buildEndpointBadgeURL, defaultGistFilenames   *)
(* and the result of UpdateGist; config.go: determineScanMode.             *)
(***************************************************************************)
\* strings.Index: the 1-based place of the first occurrence of sub, 0 if none
Index(s, sub) ==
    LET hits == {i \in 1..(Len(s) - Len(sub) + 1) :
                    SubSeq(s, i, i + Len(sub) - 1) = sub}
    IN  IF hits = {} THEN 0 ELSE CHOOSE i \in hits : \A j \in hits : i <= j

StrRaw ==
    <<47, 114, 97, 119, 47>>
    \* "/raw/"


\* stripCommitHash cutting at the last slash after "/raw/"
stripCommitHashLastSlash(rawURL) ==
    LET idx == Index(rawURL, StrRaw)
    IN  IF idx = 0 THEN rawURL
        ELSE LET prefix == SubSeq(rawURL, 1, idx + 4)
                 rest == SubSeq(rawURL, idx + 5, Len(rawURL))
                 slashes == {i \in 1..Len(rest) : rest[i] = 47}
             IN  IF slashes # {}
                 THEN prefix \o SubSeq(rest,
                         (CHOOSE i \in slashes : \A j \in slashes : j <= i) + 1,
                         Len(rest))
                 ELSE rawURL

stripCommitHash(rawURL) ==
    LET idx == Index(rawURL, StrRaw)
    IN  IF idx = 0 THEN rawURL
        ELSE LET prefix == SubSeq(rawURL, 1, idx + 4)
                 rest == SubSeq(rawURL, idx + 5, Len(rawURL))
                 slashIdx == IndexRune(rest, 47)
             IN  IF slashIdx > 0
                 THEN prefix \o SubSeq(rest, slashIdx + 1, Len(rest))
                 ELSE rawURL

buildEndpointBadgeURL(rawURL) == StrEndpointBadge \o stripCommitHash(rawURL)

StrGrypeDash ==
    <<103, 114, 121, 112, 101, 45>>
    \* "grype-"

StrDotJson ==
    <<46, 106, 115, 111, 110>>
    \* ".json"

StrDotMd ==
    <<46, 109, 100>>
    \* ".md"

StrDashGrypeJson ==
    <<45, 103, 114, 121, 112, 101, 46, 106, 115, 111, 110>>
    \* "-grype.json"


defaultGistFilenames(customBase, scanModeLabel) ==
    LET base == IF customBase = EmptyStr THEN StrGrypeDash \o scanModeLabel
                ELSE customBase
    IN  [badge |-> base \o StrDotJson, report |-> base \o StrDotMd,
         grype |-> base \o StrDashGrypeJson]

StrModeImage ==
    <<105, 109, 97, 103, 101>>
    \* "image"

StrModePath ==
    <<112, 97, 116, 104>>
    \* "path"

StrModeSbom ==
    <<115, 98, 111, 109>>
    \* "sbom"

StrModeRelease ==
    <<114, 101, 108, 101, 97, 115, 101>>
    \* "release"

StrModeRef ==
    <<114, 101, 102>>
    \* "ref"


determineScanMode(c) ==
    IF c.Image # EmptyStr THEN StrModeImage
    ELSE IF c.Path # EmptyStr THEN StrModePath
    ELSE IF c.SBOM # EmptyStr THEN StrModeSbom
    ELSE LET scan == IF c.Scan = EmptyStr THEN StrLatestRelease ELSE c.Scan
         IN  IF scan = StrLatestRelease THEN StrModeRelease
             ELSE IF scan = StrHead THEN StrHead
             ELSE StrModeRef

\* the raw URL the response lists for a file, "" when it lists none
responseRawURL(response, filename) ==
    IF \E f \in response.files : f.name = filename
    THEN (CHOOSE f \in response.files : f.name = filename).rawURL
    ELSE EmptyStr

\* UpdateGist's result for a 2xx response
gistResult(response, badgeFilename, reportFilename) ==
    [GistURL |-> response.htmlURL,
     BadgeURL |-> IF \E f \in response.files : f.name = badgeFilename
                  THEN buildEndpointBadgeURL(responseRawURL(response, badgeFilename))
                  ELSE EmptyStr,
     ReportURL |-> IF \E f \in response.files : f.name = reportFilename
                   THEN responseRawURL(response, reportFilename)
                   ELSE EmptyStr]

(***************************************************************************)
(* main.go: run, executeScan and processResults; git.go: cleanupWorktree.  *)
(***************************************************************************)
\* run returning e with its deferred call run only after a success
RunReturnCleanupOnSuccess(e) ==
    /\ runErr' = e
    /\ pc' = IF deferred /\ e = NoErr THEN "cleanup" ELSE "done"

\* run returns e; its deferred cleanupWorktree call, if any, runs next
RunReturn(e) ==
    /\ runErr' = e
    /\ pc' = IF deferred THEN "cleanup" ELSE "done"

\* executeScan's deferred os.Remove(tmpFilePath)
RemoveScratch == scratch' = "removed"

\* run after determineScanTarget returned: the error return, or the deferral
\* of the cleanup; the locals of target resolution are not read once the
\* scan goes on
RunAfterTarget ==
    /\ pc = "targetReturned"
    /\ IF err # NoErr
       THEN /\ runErr' = Wrap("failed to determine scan target", err)
            /\ pc' = "done"
            /\ UNCHANGED <<deferred, targetLocals>>
       ELSE /\ deferred' = (tempDir # EmptyStr)
            /\ pc' = IF config.DBUpdate THEN "updateGrypeDB" ELSE "executeScan"
            /\ scanMode' = EmptyStr
            /\ ref' = EmptyStr
            /\ listedTags' = <<>>
            /\ tags' = <<>>
            /\ UNCHANGED runErr
    /\ UNCHANGED <<config, target, tempDir, err, tmpDirs, worktrees, gitLog, fsLog,
                   warnings, env, cleanupCalls, scratch, grype, report, gist,
                   outputs, summaryPrinted, arg, res>>

\* updateGrypeDB
UpdateGrypeDB ==
    /\ pc = "updateGrypeDB"
    /\ grype' = [grype EXCEPT !.dbRuns = @ + 1]
    /\ \E ok \in BOOLEAN :
          IF ok THEN pc' = "executeScan" /\ UNCHANGED runErr
          ELSE RunReturn(<<"failed to update grype database", "grype db update failed">>)
    /\ UNCHANGED <<config, targetLocals, target, tempDir, err, tmpDirs, worktrees,
                   gitLog, fsLog, warnings, env, deferred, cleanupCalls, scratch,
                   report, gist, outputs, summaryPrinted, arg, res>>

\* executeScan: os.CreateTemp, tmpFile.Close and the deferral of os.Remove
CreateScratch ==
    /\ pc = "executeScan"
    /\ \E createOk \in BOOLEAN, closeOk \in BOOLEAN :
          IF ~createOk
          THEN /\ RunReturn(<<"failed to create temp file">>)
               /\ fsLog' = Append(fsLog, FsCall("CreateTemp", EmptyStr, "failed"))
               /\ UNCHANGED scratch
          ELSE /\ scratch' = "empty"
               /\ fsLog' = Append(fsLog, FsCall("CreateTemp", EmptyStr, "ok"))
               /\ IF closeOk THEN pc' = "runGrypeScan" /\ UNCHANGED runErr
                  ELSE RunReturn(<<"failed to close temp file">>)
    /\ UNCHANGED <<config, targetLocals, target, tempDir, err, tmpDirs, worktrees,
                   gitLog, warnings, env, deferred, cleanupCalls, grype, report,
                   gist, outputs, summaryPrinted, arg, res>>

\* what the scanner can leave at the output path
ScanEffects == {"json", "garbage", "empty", "removed"}

\* runGrypeScan, and executeScan's return when it failed
RunGrypeScan ==
    /\ pc = "runGrypeScan"
    /\ \E outcome \in {"ok", "nonzero", "start failed"} :
       \E effect \in (IF outcome = "start failed" THEN {scratch} ELSE ScanEffects) :
          LET e == runGrypeScanResult(outcome # "ok", effect # "removed")
          IN  /\ grype' = [grype EXCEPT !.runs = @ + 1, !.outcome = outcome,
                                        !.fileAfter = effect]
              /\ IF e # NoErr
                 THEN /\ RemoveScratch
                      /\ RunReturn(Wrap("grype scan failed", e))
                 ELSE /\ scratch' = effect
                      /\ pc' = "readOutput"
                      /\ UNCHANGED runErr
    /\ UNCHANGED <<config, targetLocals, target, tempDir, err, tmpDirs, worktrees,
                   gitLog, fsLog, warnings, env, deferred, cleanupCalls, report,
                   gist, outputs, summaryPrinted, arg, res>>

\* severities as the scanner writes them
SevCritical == <<67, 114, 105, 116, 105, 99, 97, 108>>  \* "Critical"
SevHigh == <<72, 73, 71, 72>>  \* "HIGH"
SevMedium == <<109, 101, 100, 105, 117, 109>>  \* "medium"
SevLow == <<76, 111, 119>>  \* "Low"
SevNegligible == <<78, 101, 103, 108, 105, 103, 105, 98, 108, 101>>  \* "Negligible"
SevUnknown == <<85, 110, 107, 110, 111, 119, 110>>  \* "Unknown"

Severities == {SevCritical, SevHigh, SevMedium, SevLow, SevNegligible, SevUnknown}

\* the reports a run parses
ParsedReports == {<<>>, <<SevCritical>>, <<SevLow, SevUnknown>>}

\* executeScan: os.ReadFile and parseGrypeOutput, and its return when one
\* fails or when no output file is asked for
ReadAndParse ==
    /\ pc = "readOutput"
    /\ \E readOk \in BOOLEAN, matches \in ParsedReports :
          IF scratch = "removed" \/ ~readOk
          THEN /\ RunReturn(<<"failed to read grype output">>)
               /\ UNCHANGED report
          ELSE IF scratch # "json"
          THEN /\ RunReturn(<<"failed to parse grype output", "failed to parse JSON">>)
               /\ UNCHANGED report
          ELSE /\ report' = <<matches>>
               /\ pc' = IF config.OutputFile # EmptyStr THEN "copyOutput"
                        ELSE "processResults"
               /\ UNCHANGED runErr
    /\ IF pc' = "copyOutput" THEN UNCHANGED scratch ELSE RemoveScratch
    /\ UNCHANGED <<config, targetLocals, target, tempDir, err, tmpDirs, worktrees,
                   gitLog, fsLog, warnings, env, deferred, cleanupCalls, grype,
                   gist, outputs, summaryPrinted, arg, res>>

\* copyOutputFile(tmpFilePath, config.OutputFile) and executeScan's return
CopyOutputFile ==
    /\ pc = "copyOutput"
    /\ LET r == resolveDestinationPath(config.OutputFile, env)
           v == IF r.workspace # EmptyStr
                THEN validatePathInWorkspace(r.path, r.workspace, env.cwd)
                ELSE NoErr
       IN  IF v # NoErr
           THEN /\ RunReturn(Wrap("failed to copy output file", v))
                /\ UNCHANGED fsLog
           ELSE \E failure \in {"none", "MkdirAll", "ReadFile", "WriteFile"} :
                LET mk == FsCall("MkdirAll", Dir(r.path),
                                 IF failure = "MkdirAll" THEN "failed" ELSE "ok")
                    wr == FsCall("WriteFile", r.path,
                                 IF failure = "WriteFile" THEN "failed" ELSE "ok")
                IN  /\ fsLog' = fsLog \o <<mk>>
                                \o (IF failure \in {"none", "WriteFile"} THEN <<wr>>
                                    ELSE <<>>)
                    /\ IF failure = "none"
                       THEN pc' = "processResults" /\ UNCHANGED runErr
                       ELSE RunReturn(<<"failed to copy output file", failure>>)
    /\ RemoveScratch
    /\ UNCHANGED <<config, targetLocals, target, tempDir, err, tmpDirs, worktrees,
                   gitLog, warnings, env, deferred, cleanupCalls, grype, report,
                   gist, outputs, summaryPrinted, arg, res>>

\* what the scanner's report says of itself
StrGrypeVersion ==
    <<48, 46, 56, 55, 46, 48>>
    \* "0.87.0"

StrDbBuilt ==
    <<50, 48, 50, 54, 45, 48, 49, 45, 51, 48, 84, 49, 50, 58, 51, 52, 58, 53,
     54, 90>>
    \* "2026-01-30T12:34:56Z"

StrGistHTML ==
    <<104, 116, 116, 112, 115, 58, 47, 47, 103, 105, 115, 116, 46, 103, 105,
     116, 104, 117, 98, 46, 99, 111, 109, 47, 117, 115, 101, 114, 47, 97, 98,
     99, 49, 50, 51>>
    \* "https://gist.github.com/user/abc123"

StrGistRawBase ==
    <<104, 116, 116, 112, 115, 58, 47, 47, 103, 105, 115, 116, 46, 103, 105,
     116, 104, 117, 98, 117, 115, 101, 114, 99, 111, 110, 116, 101, 110, 116,
     46, 99, 111, 109, 47, 117, 115, 101, 114, 47, 97, 98, 99, 49, 50, 51, 47,
     114, 97, 119, 47, 100, 101, 97, 100, 98, 101, 101, 102, 47>>
    \* "https://gist.githubusercontent.com/user/abc123/raw/deadbeef/"


\* a 2xx response of the gist API listing the given files
gistResponse(names) ==
    [htmlURL |-> StrGistHTML,
     files |-> {[name |-> n, rawURL |-> StrGistRawBase \o n] : n \in names}]

\* processResults sending the gist request as soon as a token is set
gistEnabledTokenOnly(c) == c.GistToken # EmptyStr

\* processResults: the condition under which it updates the gist
gistEnabled(c) == c.GistToken # EmptyStr /\ c.GistID # EmptyStr

\* processResults up to the gist update
UpdateGist ==
    /\ pc = "processResults"
    /\ IF gistEnabled(config)
       THEN LET fn == defaultGistFilenames(config.GistFilename,
                                           determineScanMode(config))
            IN  \E outcome \in {"ok", "request failed", "status 404"},
                   listed \in BOOLEAN :
                   IF outcome = "ok"
                   THEN LET response == gistResponse(IF listed
                                                     THEN {fn.badge, fn.report, fn.grype}
                                                     ELSE {})
                            r == gistResult(response, fn.badge, fn.report)
                        IN  /\ gist' = [calls |-> gist.calls + 1, result |-> "ok",
                                        badgeURL |-> r.BadgeURL,
                                        reportURL |-> r.ReportURL]
                            /\ UNCHANGED warnings
                   ELSE /\ gist' = [gist EXCEPT !.calls = @ + 1, !.result = "failed"]
                        /\ warnings' = Append(warnings, "failed to update gist")
       ELSE UNCHANGED <<gist, warnings>>
    /\ pc' = "setOutputs"
    /\ UNCHANGED <<config, targetLocals, target, tempDir, err, tmpDirs, worktrees,
                   gitLog, fsLog, env, deferred, cleanupCalls, scratch, grype,
                   report, outputs, summaryPrinted, runErr, arg, res>>

\* setOutputs publishing the gist badge URL it was given, empty or not
stepOutputsNoFallback(stats, jsonPath, scanModeLabel, reportURL, gistBadgeURL) ==
    [cveCount |-> Itoa(stats.Total), critical |-> Itoa(stats.Critical),
     high |-> Itoa(stats.High), medium |-> Itoa(stats.Medium),
     low |-> Itoa(stats.Low),
     badgeURL |-> gistBadgeURL,
     jsonOutput |-> IF jsonPath # EmptyStr THEN <<jsonPath>> ELSE <<>>,
     reportURL |-> IF reportURL # EmptyStr THEN <<reportURL>> ELSE <<>>]

\* the outputs setOutputs writes; an optional output is <<>> when left out
stepOutputs(stats, jsonPath, scanModeLabel, reportURL, gistBadgeURL) ==
    [cveCount |-> Itoa(stats.Total), critical |-> Itoa(stats.Critical),
     high |-> Itoa(stats.High), medium |-> Itoa(stats.Medium),
     low |-> Itoa(stats.Low),
     badgeURL |-> IF gistBadgeURL = EmptyStr
                  THEN generateBadgeURL(stats, buildBadgeLabel(StrGrypeVersion),
                                        StrDbBuilt, scanModeLabel)
                  ELSE gistBadgeURL,
     jsonOutput |-> IF jsonPath # EmptyStr THEN <<jsonPath>> ELSE <<>>,
     reportURL |-> IF reportURL # EmptyStr THEN <<reportURL>> ELSE <<>>]

\* processResults going on after a failure of setOutputs
setOutputsErrorIgnored(failure) == NoErr

\* processResults: what it returns when setOutputs has failed
setOutputsError(failure) ==
    IF failure = "none" THEN NoErr ELSE <<"failed to set outputs", failure>>

\* processResults: setOutputs
SetOutputs ==
    /\ pc = "setOutputs"
    /\ IF ~env.githubOutput
       THEN /\ warnings' = Append(warnings, "GITHUB_OUTPUT not set")
            /\ pc' = "failCheck"
            /\ UNCHANGED <<outputs, runErr>>
       ELSE /\ UNCHANGED warnings
            /\ \E failure \in {"none", "open", "write"} :
                  /\ outputs' =
                        CASE failure = "none" ->
                               [written |-> "all",
                                lines |-> <<stepOutputs(
                                   calculateStats(report[1]),
                                   IF config.OutputFile # EmptyStr
                                   THEN resolveDestinationPath(config.OutputFile, env).path
                                   ELSE EmptyStr,
                                   determineScanMode(config),
                                   gist.reportURL, gist.badgeURL)>>]
                          [] failure = "write" -> [outputs EXCEPT !.written = "partial"]
                          [] OTHER -> outputs
                  /\ LET e == setOutputsError(failure)
                     IN  IF e = NoErr
                         THEN pc' = "failCheck" /\ UNCHANGED runErr
                         ELSE RunReturn(e)
    /\ UNCHANGED <<config, targetLocals, target, tempDir, err, tmpDirs, worktrees,
                   gitLog, fsLog, env, deferred, cleanupCalls, scratch, grype,
                   report, gist, summaryPrinted, arg, res>>

\* processResults: printSummary and the fail-build check
FailCheck ==
    /\ pc = "failCheck"
    /\ summaryPrinted' = TRUE
    /\ IF config.FailBuild
          /\ shouldFail(calculateStats(report[1]), config.SeverityCutoff)
       THEN RunReturn(<<"vulnerabilities found at or above severity">>)
       ELSE RunReturn(NoErr)
    /\ UNCHANGED <<config, targetLocals, target, tempDir, err, tmpDirs, worktrees,
                   gitLog, fsLog, warnings, env, deferred, cleanupCalls, scratch,
                   grype, report, gist, outputs, arg, res>>

\* cleanupWorktree returning as soon as git worktree remove has failed
cleanupWorktreeStopOnGitFailure(worktreeDir) ==
    IF worktreeDir = EmptyStr
    THEN UNCHANGED <<worktrees, tmpDirs, gitLog, fsLog, warnings>>
    ELSE /\ gitLog' = Append(gitLog, GitCmd("worktree remove", worktreeDir))
         /\ \E gitOk \in (IF \E w \in worktrees : w.path = worktreeDir
                          THEN BOOLEAN ELSE {FALSE}) :
               IF gitOk
               THEN /\ worktrees' = {w \in worktrees : w.path # worktreeDir}
                    /\ tmpDirs' = tmpDirs \ {worktreeDir}
                    /\ fsLog' = Append(fsLog, FsCall("RemoveAll", worktreeDir, "ok"))
                    /\ UNCHANGED warnings
               ELSE /\ UNCHANGED <<worktrees, tmpDirs, fsLog>>
                    /\ warnings' = Append(warnings, "git worktree remove failed")

\* cleanupWorktree(worktreeDir): nothing for the empty path; otherwise
\* `git worktree remove --force`, which fails on a path that is no worktree,
\* then os.RemoveAll, which succeeds on a path that does not exist; each
\* failure prints a warning
cleanupWorktree(worktreeDir) ==
    IF worktreeDir = EmptyStr
    THEN UNCHANGED <<worktrees, tmpDirs, gitLog, fsLog, warnings>>
    ELSE /\ gitLog' = Append(gitLog, GitCmd("worktree remove", worktreeDir))
         /\ \E gitOk \in (IF \E w \in worktrees : w.path = worktreeDir
                          THEN BOOLEAN ELSE {FALSE}),
               removeOk \in (IF worktreeDir \in tmpDirs THEN BOOLEAN ELSE {TRUE}) :
               IF gitOk
               THEN /\ worktrees' = {w \in worktrees : w.path # worktreeDir}
                    /\ tmpDirs' = tmpDirs \ {worktreeDir}
                    /\ fsLog' = Append(fsLog, FsCall("RemoveAll", worktreeDir, "ok"))
                    /\ UNCHANGED warnings
               ELSE /\ UNCHANGED worktrees
                    /\ tmpDirs' = IF removeOk THEN tmpDirs \ {worktreeDir}
                                  ELSE tmpDirs
                    /\ fsLog' = Append(fsLog, FsCall("RemoveAll", worktreeDir,
                                          IF removeOk THEN "ok" ELSE "failed"))
                    /\ warnings' = warnings \o <<"git worktree remove failed">>
                          \o (IF removeOk THEN <<>>
                              ELSE <<"failed to remove worktree directory">>)

\* the deferred cleanupWorktree(tempDir)
CleanupWorktree ==
    /\ pc = "cleanup"
    /\ cleanupCalls' = cleanupCalls + 1
    /\ cleanupWorktree(tempDir)
    /\ pc' = "done"
    /\ UNCHANGED <<config, targetLocals, target, tempDir, err, env, deferred,
                   scratch, grype, report, gist, outputs, summaryPrinted, runErr,
                   arg, res>>

(***************************************************************************)
(* Spec: one whole run.                                                    *)
(***************************************************************************)
StrOutJson == <<111, 117, 116, 46, 106, 115, 111, 110>>  \* "out.json"
StrUpOutJson == <<46, 46, 47, 111, 117, 116, 46, 106, 115, 111, 110>>  \* "../out.json"
StrWs == <<47, 119>>  \* "/w"
StrToken == <<103, 104, 112, 95, 120>>  \* "ghp_x"
StrGistID == <<97, 98, 99, 49, 50, 51>>  \* "abc123"
StrBogus == <<98, 111, 103, 117, 115>>  \* "bogus"

\* the target selectors of a run: the three repository modes, an image and
\* a conflicting pair
RunSelectors ==
    {[DefaultConfig EXCEPT !.Scan = sc] :
        sc \in {EmptyStr, StrHead, StrMain, StrBadRef}}
    \cup {[DefaultConfig EXCEPT !.Image = StrImage],
          [DefaultConfig EXCEPT !.Image = StrImage, !.Scan = StrHead]}

\* the other inputs of a run: <<fail-build, severity-cutoff, output-file,
\* db-update, gist-token, gist-id>>
RunProfiles ==
    {<<FALSE, StrMedium, EmptyStr, FALSE, EmptyStr, EmptyStr>>,
     <<TRUE, StrNegligible, StrOutJson, TRUE, StrToken, StrGistID>>,
     <<TRUE, StrMedium, StrUpOutJson, FALSE, StrToken, EmptyStr>>}

RunConfigs ==
    {[c EXCEPT !.FailBuild = p[1], !.SeverityCutoff = p[2], !.OutputFile = p[3],
               !.DBUpdate = p[4], !.GistToken = p[5], !.GistID = p[6]] :
        c \in RunSelectors, p \in RunProfiles}

RunEnvs ==
    {[DefaultEnv EXCEPT !.githubWorkspace = e[1], !.githubOutput = e[2],
                        !.remote = e[3]] :
        e \in {<<EmptyStr, FALSE, TRUE>>, <<EmptyStr, TRUE, FALSE>>,
               <<StrWs, TRUE, TRUE>>}}

Init ==
    /\ config \in RunConfigs
    /\ env \in RunEnvs
    /\ pc = "determineScanTarget"
    /\ InitWorld

Next ==
    \/ DetermineScanTarget
    \/ GetLatestReleaseTag
    \/ CheckoutToWorktree
    \/ RunAfterTarget
    \/ UpdateGrypeDB
    \/ CreateScratch
    \/ RunGrypeScan
    \/ ReadAndParse
    \/ CopyOutputFile
    \/ UpdateGist
    \/ SetOutputs
    \/ FailCheck
    \/ CleanupWorktree

Spec == Init /\ [][Next]_vars

(***************************************************************************)
(* SpecCopy: copyOutputFile over every short destination path, and         *)
(* SpecResults: processResults over every short report.  Both start in the *)
(* state of a "head" scan whose scanner run has succeeded.                 *)
(***************************************************************************)
MaxPathLen == 6
MaxMatches == 2

StrNestedWs == <<47, 97, 47, 97>>  \* "/a/a"

ScanSucceeded ==
    /\ scanMode = EmptyStr
    /\ ref = EmptyStr
    /\ listedTags = <<>>
    /\ tags = <<>>
    /\ target = StrDirDot
    /\ tempDir = EmptyStr
    /\ err = NoErr
    /\ tmpDirs = {}
    /\ worktrees = {}
    /\ gitLog = <<GitCmd("config", EmptyStr)>>
    /\ fsLog = <<FsCall("CreateTemp", EmptyStr, "ok")>>
    /\ warnings = <<>>
    /\ deferred = FALSE
    /\ cleanupCalls = 0
    /\ grype = [dbRuns |-> 0, runs |-> 1, outcome |-> "ok", fileAfter |-> "json"]
    /\ gist = NoGist
    /\ outputs = NoOutputs
    /\ summaryPrinted = FALSE
    /\ runErr = NoErr
    /\ arg = EmptyStr
    /\ res = <<>>

\* destinations over ".", "/" and "a"
PathAlphabet == {46, 47, 97}

CopyEnvs ==
    {[DefaultEnv EXCEPT !.containerWs = e[1], !.githubWorkspace = e[2]] :
        e \in {<<FALSE, EmptyStr>>, <<FALSE, StrWs>>, <<FALSE, StrNestedWs>>,
               <<TRUE, EmptyStr>>, <<TRUE, StrWs>>}}

InitCopy ==
    /\ config \in {[DefaultConfig EXCEPT !.Scan = StrHead, !.OutputFile = o] :
                      o \in StringsUpTo(PathAlphabet, MaxPathLen) \ {EmptyStr}}
    /\ env \in CopyEnvs
    /\ pc = "copyOutput"
    /\ scratch = "json"
    /\ report = << <<>> >>
    /\ ScanSucceeded

NextCopy == CopyOutputFile

SpecCopy == InitCopy /\ [][NextCopy]_vars

Cutoffs == {StrCritical, StrHigh, StrMedium, StrLow, StrNegligible, StrBogus}

InitResults ==
    /\ config \in {[DefaultConfig EXCEPT !.Scan = StrHead, !.FailBuild = fb,
                                         !.SeverityCutoff = co,
                                         !.GistToken = gt[1], !.GistID = gt[2]] :
                      fb \in BOOLEAN, co \in Cutoffs,
                      gt \in {<<EmptyStr, EmptyStr>>, <<StrToken, StrGistID>>}}
    /\ env \in {[DefaultEnv EXCEPT !.githubOutput = go] : go \in BOOLEAN}
    /\ pc = "processResults"
    /\ scratch = "removed"
    /\ report \in {<<m>> : m \in StringsUpTo(Severities, MaxMatches)}
    /\ ScanSucceeded

NextResults ==
    \/ UpdateGist
    \/ SetOutputs
    \/ FailCheck

SpecResults == InitResults /\ [][NextResults]_vars

(***************************************************************************)
(* SpecRef: validateRefName applied to every ref over RefAlphabet of       *)
(* length at most MaxRefLen.                                               *)
(***************************************************************************)
\* NUL, US, DEL, '.', '/', '~', '^', ':', '?', '*', '[', '\', ' ', 'a', 'é'
RefAlphabet == {0, 31, 127, 46, 47, 126, 94, 58, 63, 42, 91, 92, 32, 97, 233}

InitRef ==
    /\ RunIdle
    /\ arg \in StringsUpTo(RefAlphabet, MaxRefLen)
    /\ res = <<>>

ApplyValidateRefName ==
    /\ pc = "idle"
    /\ res = <<>>
    /\ res' = <<validateRefName(arg)>>
    /\ UNCHANGED <<runVars, arg>>

NextRef == ApplyValidateRefName

SpecRef == InitRef /\ [][NextRef]_vars

\* C10: validateRefName fails exactly for the refs that are empty, hold an
\* ASCII control character (< 32 or 127), hold "..", or one of ~ ^ : ? * [ \
\* or a space, or start or end with '.' or '/'; every other ref passes.
RefDefect(r) ==
    \/ Len(r) = 0
    \/ \E i \in 1..Len(r) : r[i] < 32 \/ r[i] = 127
    \/ \E i \in 1..(Len(r) - 1) : r[i] = 46 /\ r[i + 1] = 46
    \/ \E i \in 1..Len(r) : r[i] \in {126, 94, 58, 63, 42, 91, 92, 32}
    \/ (Len(r) > 0 /\ (r[1] \in {46, 47} \/ r[Len(r)] \in {46, 47}))

C10_ValidateRefName ==
    res # <<>> => ((res[1] # NoErr) <=> RefDefect(arg))

\* an accepted ref with a slash inside has been validated
C10_Witness ==
    /\ res = <<NoErr>>
    /\ Len(arg) = MaxRefLen
    /\ \E i \in 1..Len(arg) : arg[i] = 47

(***************************************************************************)
(* Claims about target resolution, checked under SpecTarget.               *)
(***************************************************************************)
ArtifactSelectors == {f \in {"Image", "Path", "SBOM"} : config[f] # EmptyStr}

RepoMode == ArtifactSelectors = {}

TargetReturned == pc = "targetReturned"

GitRan(cmd) == \E i \in 1..Len(gitLog) : gitLog[i].cmd = cmd

FsDid(op) == \E i \in 1..Len(fsLog) : fsLog[i].op = op

SelectorConflict ==
    \/ Cardinality(ArtifactSelectors) > 1
    \/ (Cardinality(ArtifactSelectors) = 1 /\ config.Scan # EmptyStr)

\* C1: with more than one of Image, Path, SBOM set, or with exactly one of
\* them set together with Scan, determineScanTarget returns an error and no
\* target, and makes no git, worktree or file system call.
C1_MutualExclusivity ==
    SelectorConflict =>
        /\ pc \in {"determineScanTarget", "targetReturned"}
        /\ TargetReturned => (err # NoErr /\ target = EmptyStr /\ tempDir = EmptyStr)
        /\ gitLog = <<>>
        /\ fsLog = <<>>
        /\ tmpDirs = {}
        /\ worktrees = {}

\* a conflicting call with one artifact selector and a scan value has returned
C1_Witness ==
    /\ TargetReturned
    /\ Cardinality(ArtifactSelectors) = 1
    /\ config.Scan # EmptyStr
    /\ err = <<"scan cannot be used together with image, path, or sbom">>

\* the first tag of a list that is no pre-release, the first tag if all are
FirstStable(l) ==
    IF \E i \in 1..Len(l) : ~isPreReleaseTag(l[i])
    THEN l[CHOOSE i \in 1..Len(l) :
               ~isPreReleaseTag(l[i]) /\ \A j \in 1..(i - 1) : isPreReleaseTag(l[j])]
    ELSE l[1]

AllPreRelease(l) == \A i \in 1..Len(l) : isPreReleaseTag(l[i])

\* getLatestReleaseTag has listed a non-empty tag list
ListedSome == tags # <<>> /\ listedTags # <<>>

\* C5: from a non-empty tag list in descending version order
\* getLatestReleaseTag returns the first tag that is no pre-release; if every
\* tag is a pre-release it returns the first tag, warns and does not fail.
\* From v2.0.0, v1.0.0 it returns v2.0.0.
C5_LatestStableTag ==
    ListedSome =>
        /\ pc # "getLatestReleaseTag"
        /\ ref = FirstStable(listedTags)
        /\ (~AllPreRelease(listedTags) => ~isPreReleaseTag(ref))
        /\ (AllPreRelease(listedTags) <=>
              \E i \in 1..Len(warnings) :
                  warnings[i] = "All tags appear to be pre-release")
        /\ (AllPreRelease(listedTags) => ref = listedTags[1])
        /\ (listedTags = <<StrV200, StrV100>> => ref = StrV200)
        /\ (pc = "checkoutToWorktree" => err = NoErr)

\* a stable tag was returned although a pre-release sorts above it
C5_Witness ==
    /\ ListedSome
    /\ isPreReleaseTag(listedTags[1])
    /\ ref = StrV200
    /\ pc = "checkoutToWorktree"

OnlySelector(f) == ArtifactSelectors = {f} /\ config.Scan = EmptyStr

\* C7: Image gives the image string; Path gives "not found" when the path is
\* missing, "dir:"+path for a directory and "file:"+path otherwise; SBOM gives
\* "sbom:"+path without any existence check; the temp dir is always empty.
C7_ArtifactTargets ==
    TargetReturned =>
        /\ OnlySelector("Image") =>
              target = config.Image /\ tempDir = EmptyStr /\ err = NoErr
        /\ OnlySelector("Path") =>
              /\ Len(fsLog) = 1 /\ fsLog[1].op = "Stat" /\ fsLog[1].path = config.Path
              /\ tempDir = EmptyStr
              /\ fsLog[1].result = "missing" =>
                    err = <<"path not found">> /\ target = EmptyStr
              /\ fsLog[1].result = "dir" =>
                    err = NoErr /\ target = StrDirPrefix \o config.Path
              /\ fsLog[1].result = "file" =>
                    err = NoErr /\ target = StrFilePrefix \o config.Path
        /\ OnlySelector("SBOM") =>
              /\ target = StrSbomPrefix \o config.SBOM
              /\ tempDir = EmptyStr /\ err = NoErr /\ fsLog = <<>>

\* a path that is a plain file was resolved
C7_Witness ==
    /\ TargetReturned
    /\ OnlySelector("Path")
    /\ target = StrFilePrefix \o StrSrcPath

Blank(s) == \A i \in 1..Len(s) : IsSpace(s[i])

\* C8: in repository mode a blank Scan is resolved as "latest_release", and
\* "head" in any letter case returns "dir:." with no temp dir, no worktree, no
\* tag resolution and no ref validation.
C8_RepoDefaultAndHead ==
    (RepoMode /\ pc # "determineScanTarget") =>
        /\ Blank(config.Scan) =>
              /\ scanMode = StrLatestRelease
              /\ target # StrDirDot
              /\ (pc = "targetReturned" /\ ~GitRan("tag")) =>
                    err = <<"could not determine latest release", "git not found">>
              /\ \A w \in worktrees : w.ref \in {listedTags[i] : i \in 1..Len(listedTags)}
        /\ config.Scan \in CaseVariants(StrHead) =>
              /\ TargetReturned
              /\ target = StrDirDot /\ tempDir = EmptyStr /\ err = NoErr
              /\ ref = EmptyStr /\ tags = <<>>
              /\ ~GitRan("fetch") /\ ~GitRan("tag") /\ ~GitRan("worktree add")
              /\ fsLog = <<>> /\ tmpDirs = {} /\ worktrees = {}

\* "head" in mixed case was resolved to the current checkout
C8_Witness ==
    /\ TargetReturned
    /\ RepoMode
    /\ config.Scan = <<72, 101, 65, 100>>
    /\ target = StrDirDot

\* the ref a repository scan other than "head" has to check out
ExpectedRef ==
    IF Blank(config.Scan) \/ ToLower(TrimSpace(config.Scan)) = StrLatestRelease
    THEN FirstStable(listedTags)
    ELSE TrimSpace(config.Scan)

\* C9: a successful "latest_release" or explicit-ref resolution returns
\* target = "dir:"+worktreePath and tempDir = worktreePath, a freshly made temp
\* directory holding a worktree of the resolved ref; in every mode tempDir is
\* non-empty exactly when a worktree was created and exists, and it is empty
\* on every error return.
C9_WorktreeResult ==
    /\ (tempDir # EmptyStr <=> worktrees # {})
    /\ \A w \in worktrees : w.path = tempDir /\ w.path \in tmpDirs
    /\ (TargetReturned /\ err # NoErr) => (tempDir = EmptyStr /\ target = EmptyStr)
    /\ (TargetReturned /\ err = NoErr /\ RepoMode /\ ToLower(scanMode) # StrHead) =>
          /\ target = StrDirPrefix \o tempDir
          /\ tempDir # EmptyStr
          /\ worktrees = {[path |-> tempDir, ref |-> ExpectedRef]}
          /\ fsLog = <<FsCall("MkdirTemp", tempDir, "ok")>>
          /\ gitLog[Len(gitLog)] = GitCmd("worktree add", ExpectedRef)

\* an explicit ref was checked out
C9_Witness ==
    /\ TargetReturned
    /\ config.Scan = StrMain
    /\ tempDir = StrTmpWorktree
    /\ worktrees = {[path |-> StrTmpWorktree, ref |-> StrMain]}

(***************************************************************************)
(* Claims about copyOutputFile, checked under SpecCopy.                    *)
(***************************************************************************)
\* lexical resolution of path segments on top of a stack of directory names
RECURSIVE walkSegments(_, _)
walkSegments(stack, segs) ==
    IF segs = <<>> THEN stack
    ELSE LET h == Head(segs)
             next == IF h = EmptyStr \/ h = StrDot THEN stack
                     ELSE IF h = StrDotDot
                     THEN IF stack = <<>> THEN stack
                          ELSE SubSeq(stack, 1, Len(stack) - 1)
                     ELSE Append(stack, h)
         IN  walkSegments(next, Tail(segs))

\* the relative destination stays in or below the workspace directory
InsideWorkspace(workspace, dest) ==
    LET w == walkSegments(<<>>, Split(workspace, 47))
        d == walkSegments(w, Split(dest, 47))
    IN  Len(d) >= Len(w) /\ SubSeq(d, 1, Len(w)) = w

\* the workspace a relative destination is resolved against, "" if none
WorkspaceUsed ==
    IF IsAbs(config.OutputFile) THEN EmptyStr
    ELSE IF env.containerWs THEN StrContainerWs
    ELSE env.githubWorkspace

EscapesWorkspace ==
    /\ WorkspaceUsed # EmptyStr
    /\ ~InsideWorkspace(WorkspaceUsed, config.OutputFile)

TraversalError == <<"failed to copy output file", "path traversal detected">>

CopyReturned == pc # "copyOutput"

\* C2: once copyOutputFile has returned, a relative destination that was
\* resolved against a workspace and leaves it has produced the path
\* traversal error, with no directory created and no file written; every
\* other destination (inside the workspace, absolute, or resolved without a
\* workspace) has passed without that error and reached the directory
\* creation.
C2_TraversalRejected ==
    CopyReturned =>
        IF EscapesWorkspace
        THEN /\ runErr = TraversalError
             /\ ~FsDid("MkdirAll")
             /\ ~FsDid("WriteFile")
        ELSE /\ runErr # TraversalError
             /\ FsDid("MkdirAll")

\* "../a" against the workspace /w was rejected
C2_Witness ==
    /\ CopyReturned
    /\ config.OutputFile = <<46, 46, 47, 97>>
    /\ WorkspaceUsed = StrWs
    /\ EscapesWorkspace
    /\ runErr = TraversalError

(***************************************************************************)
(* Claims about processResults, checked under SpecResults.                 *)
(***************************************************************************)
\* the number of matches of the report with the given lower-cased severity
CountSeverity(sev) ==
    Cardinality({i \in 1..Len(report[1]) : ToLower(report[1][i]) = sev})

\* the table of the five named cutoffs
MeetsCutoff(cutoff) ==
    LET crit == CountSeverity(StrCritical) > 0
        high == CountSeverity(StrHigh) > 0
        med == CountSeverity(StrMedium) > 0
        low == CountSeverity(StrLow) > 0
    IN  CASE cutoff = StrCritical -> crit
          [] cutoff = StrHigh -> crit \/ high
          [] cutoff = StrMedium -> crit \/ high \/ med
          [] cutoff = StrLow -> crit \/ high \/ med \/ low
          [] cutoff = StrNegligible -> Len(report[1]) > 0

NamedCutoffs == {StrCritical, StrHigh, StrMedium, StrLow, StrNegligible}

VulnerabilityError == runErr = <<"vulnerabilities found at or above severity">>

SetOutputsFailed == runErr # NoErr /\ runErr[1] = "failed to set outputs"

ResultsReturned == pc = "done" /\ report # <<>>

\* C3: processResults returns the "vulnerabilities found" error exactly when
\* fail-build is on, the counts meet the cutoff (by the table of the five
\* named cutoffs) and setOutputs has not failed before; a failure of
\* setOutputs is returned instead, and otherwise processResults returns nil.
\* With fail-build off the counts never cause an error.
C3_FailBuild ==
    (ResultsReturned /\ config.SeverityCutoff \in NamedCutoffs) =>
        /\ VulnerabilityError <=>
              /\ config.FailBuild
              /\ MeetsCutoff(config.SeverityCutoff)
              /\ ~SetOutputsFailed
        /\ (~VulnerabilityError /\ ~SetOutputsFailed) => runErr = NoErr
        /\ ~config.FailBuild => ~VulnerabilityError

\* a critical match failed the build under the cutoff "high"
C3_Witness ==
    /\ ResultsReturned
    /\ config.FailBuild
    /\ config.SeverityCutoff = StrHigh
    /\ CountSeverity(StrCritical) > 0
    /\ CountSeverity(StrHigh) = 0
    /\ VulnerabilityError

\* C3 as stated: the error is returned if and only if fail-build is on and
\* the counts meet the cutoff.
C3_Original ==
    (ResultsReturned /\ config.SeverityCutoff \in NamedCutoffs) =>
        (VulnerabilityError <=>
            (config.FailBuild /\ MeetsCutoff(config.SeverityCutoff)))

(***************************************************************************)
(* Claims about a whole run, checked under Spec.                           *)
(***************************************************************************)
ScanFailedError == runErr = <<"grype scan failed", "exit status">>

\* C4: after runGrypeScan, the run carries the "grype scan failed" error if
\* and only if the scanner's command failed and no file exists at the output
\* path; a zero exit, and a non-zero exit that leaves a file, go on to the
\* reading of the output.
C4_NonZeroExitTolerated ==
    /\ grype.runs > 0 =>
          (ScanFailedError <=>
              (grype.outcome # "ok" /\ grype.fileAfter = "removed"))
    /\ pc = "readOutput" =>
          /\ grype.runs = 1
          /\ runErr = NoErr
          /\ grype.outcome = "ok" \/ grype.fileAfter # "removed"
    /\ grype.runs = 0 => ~ScanFailedError

\* the scanner exited non-zero, left its report, and the run goes on
C4_Witness ==
    /\ pc = "readOutput"
    /\ grype.outcome = "nonzero"
    /\ grype.fileAfter = "json"
    /\ runErr = NoErr

NoTagsListed == tags # <<>> /\ listedTags = <<>>

NoTagsError ==
    <<"could not determine latest release", "no release tags found in repository">>

\* C6: when the tag listing of a "latest_release" scan comes back empty,
\* target resolution returns the no-tags error with no target and no temp
\* directory; no temp directory and no worktree were created, the scanner and
\* its database update never run, no cleanup is deferred or run, and the run
\* ends with that error.
C6_NoTagsAborts ==
    NoTagsListed =>
        /\ pc \in {"targetReturned", "done"}
        /\ err = NoTagsError
        /\ target = EmptyStr
        /\ tempDir = EmptyStr
        /\ tmpDirs = {}
        /\ worktrees = {}
        /\ ~FsDid("MkdirTemp")
        /\ ~GitRan("worktree add")
        /\ grype = NoGrype
        /\ scratch = "none"
        /\ ~deferred
        /\ cleanupCalls = 0
        /\ pc = "done" => runErr = Wrap("failed to determine scan target", NoTagsError)

\* a run on a repository without tags has ended
C6_Witness ==
    /\ NoTagsListed
    /\ GitRan("tag")
    /\ pc = "done"
    /\ runErr = Wrap("failed to determine scan target", NoTagsError)

(***************************************************************************)
(* SpecPre: isPreReleaseTag applied to every short tag.                    *)
(***************************************************************************)
MaxTagLen == 5

\* 'v', 'V', '-', '.', '1', 'a'
TagAlphabet == {118, 86, 45, 46, 49, 97}

InitPre ==
    /\ RunIdle
    /\ arg \in StringsUpTo(TagAlphabet, MaxTagLen)
    /\ res = <<>>

ApplyIsPreReleaseTag ==
    /\ pc = "idle"
    /\ res = <<>>
    /\ res' = <<isPreReleaseTag(arg)>>
    /\ UNCHANGED <<runVars, arg>>

NextPre == ApplyIsPreReleaseTag

SpecPre == InitPre /\ [][NextPre]_vars

\* the tag without one leading 'v' or 'V'
StripOneV(tag) ==
    IF Len(tag) > 0 /\ tag[1] \in {118, 86} THEN Tail(tag) ELSE tag

\* the stated predicate: after stripping one 'v' or 'V' there is a '-', the
\* part before the first '-' is non-empty and made of digits and '.', and the
\* part after it is non-empty
StatedPreRelease(tag) ==
    LET n == StripOneV(tag)
        i == IndexRune(n, 45)
    IN  /\ i > 0
        /\ i > 1
        /\ \A j \in 1..(i - 1) : n[j] = 46 \/ (n[j] >= 48 /\ n[j] <= 57)
        /\ i < Len(n)

\* C11: isPreReleaseTag returns, for every tag, what the stated predicate
\* gives: one leading 'v' or 'V' stripped, split at the first '-', no '-'
\* means no pre-release, otherwise a pre-release exactly when the part before
\* the '-' is non-empty and all digits and '.', and the part after is
\* non-empty.
C11_PreReleasePredicate ==
    res # <<>> => (res[1] <=> StatedPreRelease(arg))

(***************************************************************************)
(* SpecStats: calculateStats applied to every short list of matches.       *)
(***************************************************************************)
MaxReportLen == 3

InitStats ==
    /\ RunIdle
    /\ arg \in StringsUpTo(Severities, MaxReportLen)
    /\ res = <<>>

ApplyCalculateStats ==
    /\ pc = "idle"
    /\ res = <<>>
    /\ res' = <<calculateStats(arg)>>
    /\ UNCHANGED <<runVars, arg>>

NextStats == ApplyCalculateStats

SpecStats == InitStats /\ [][NextStats]_vars

\* the number of matches in m whose lower-cased severity is in sevs
CountIn(m, sevs) == Cardinality({i \in 1..Len(m) : ToLower(m[i]) \in sevs})

FourSeverities == {StrCritical, StrHigh, StrMedium, StrLow}

\* the reorderings of a list of matches
Reorderings(m) ==
    {[i \in 1..Len(m) |-> m[f[i]]] :
        f \in {g \in [1..Len(m) -> 1..Len(m)] :
                  \A i, j \in 1..Len(m) : g[i] = g[j] => i = j}}

\* C12: calculateStats counts every match once in Total and once in the
\* bucket of its lower-cased severity, Other for every string that is none
\* of critical, high, medium, low; so Total = Critical + High + Medium + Low
\* + Other = number of matches, and every reordering of the matches gives
\* the same stats.
C12_StatsReduction ==
    res # <<>> =>
        LET st == res[1]
        IN  /\ st.Total = Len(arg)
            /\ st.Total = st.Critical + st.High + st.Medium + st.Low + st.Other
            /\ st.Critical = CountIn(arg, {StrCritical})
            /\ st.High = CountIn(arg, {StrHigh})
            /\ st.Medium = CountIn(arg, {StrMedium})
            /\ st.Low = CountIn(arg, {StrLow})
            /\ st.Other = Len(arg) - CountIn(arg, FourSeverities)
            /\ \A m \in Reorderings(arg) : calculateStats(m) = st

\* "Critical", "Unknown", "HIGH" were counted
C12_Witness ==
    /\ res # <<>>
    /\ arg = <<SevCritical, SevUnknown, SevHigh>>
    /\ res[1] = [Total |-> 3, Critical |-> 1, High |-> 1, Medium |-> 0,
                 Low |-> 0, Other |-> 1]

(***************************************************************************)
(* Claims about the gist update, checked under SpecResults.                *)
(***************************************************************************)
GistConfigured == config.GistToken # EmptyStr /\ config.GistID # EmptyStr

GistFailed == gist.result = "failed"

Warned(w) == \E i \in 1..Len(warnings) : warnings[i] = w

\* the static badge of the report
StaticBadgeURL ==
    generateBadgeURL(calculateStats(report[1]), buildBadgeLabel(StrGrypeVersion),
                     StrDbBuilt, determineScanMode(config))

\* what processResults returns when nothing but the fail-build check fails
VerdictOnly ==
    IF config.FailBuild /\ shouldFail(calculateStats(report[1]), config.SeverityCutoff)
    THEN <<"vulnerabilities found at or above severity">>
    ELSE NoErr

\* C13: after a failed gist update (token and id configured, UpdateGist
\* returned an error) processResults has warned and gone on: the step
\* outputs, when GITHUB_OUTPUT is set and writable, are all written, with the
\* static shields.io badge as badge-url and without report-url, the summary
\* is printed, and processResults returns what the fail-build check alone
\* decides, as it does without a gist.
C13_GistFailureNonFatal ==
    GistFailed =>
        /\ GistConfigured
        /\ gist.calls = 1
        /\ Warned("failed to update gist")
        /\ pc \in {"setOutputs", "failCheck", "done"}
        /\ pc # "done" => runErr = NoErr
        /\ outputs.written = "all" =>
              /\ outputs.lines[1].badgeURL = StaticBadgeURL
              /\ HasPrefix(outputs.lines[1].badgeURL, StrStaticBadge)
              /\ outputs.lines[1].reportURL = <<>>
        /\ (pc = "done" /\ ~SetOutputsFailed) =>
              /\ summaryPrinted
              /\ env.githubOutput => outputs.written = "all"
              /\ runErr = VerdictOnly

\* a run whose gist update failed has written its outputs and succeeded
C13_Witness ==
    /\ GistFailed
    /\ pc = "done"
    /\ outputs.written = "all"
    /\ outputs.lines[1].badgeURL = StaticBadgeURL
    /\ runErr = NoErr

\* the stated anchor of a file name: lower-cased, every character outside
\* a-z, 0-9 and '-' replaced by '-', after "file-"
StrFileDash ==
    <<102, 105, 108, 101, 45>>
    \* "file-"

StatedAnchor(name) ==
    StrFileDash
    \o [i \in 1..Len(name) |->
           LET c == LowerRune(name[i])
           IN  IF (c >= 97 /\ c <= 122) \/ (c >= 48 /\ c <= 57) \/ c = 45 THEN c
               ELSE 45]

\* the stated report URL of this run's gist
StatedReportURL ==
    StrGistHTML \o <<35>>
    \o StatedAnchor(defaultGistFilenames(config.GistFilename,
                                         determineScanMode(config)).report)

\* C14: after a successful gist update that lists the report file, the
\* ReportURL of UpdateGist, and the report-url output once written, is the
\* gist's HTML URL, '#', and the anchor of the report file name
\* (https://gist.github.com/user/abc123#file-grype-head-md for a head scan).
C14_ReportAnchorURL ==
    (gist.result = "ok" /\ gist.reportURL # EmptyStr) =>
        /\ gist.reportURL = StatedReportURL
        /\ outputs.written = "all" => outputs.lines[1].reportURL = <<StatedReportURL>>

(***************************************************************************)
(* SpecBadge: determineBadgeColor and formatBadgeMessage applied to every  *)
(* stats value with small counts.                                          *)
(***************************************************************************)
MaxCount == 2

\* the counts of a bucket: the small ones and a two-digit one
CountValues == (0..MaxCount) \cup {12}

\* stats as calculateStats makes them (Total the sum of the buckets), and
\* the same buckets under a zero Total
BadgeStats ==
    {[Total |-> IF z THEN 0 ELSE c + h + m + l + o,
      Critical |-> c, High |-> h, Medium |-> m, Low |-> l, Other |-> o] :
        c \in CountValues, h \in CountValues, m \in CountValues, l \in CountValues,
        o \in CountValues, z \in BOOLEAN}

InitBadge ==
    /\ RunIdle
    /\ arg \in BadgeStats
    /\ res = <<>>

ApplyDetermineBadgeColor ==
    /\ pc = "idle"
    /\ res = <<>>
    /\ res' = <<[fn |-> "determineBadgeColor", out |-> determineBadgeColor(arg)]>>
    /\ UNCHANGED <<runVars, arg>>

ApplyFormatBadgeMessage ==
    /\ pc = "idle"
    /\ res = <<>>
    /\ res' = <<[fn |-> "formatBadgeMessage", out |-> formatBadgeMessage(arg)]>>
    /\ UNCHANGED <<runVars, arg>>

NextBadge ==
    \/ ApplyDetermineBadgeColor
    \/ ApplyFormatBadgeMessage

SpecBadge == InitBadge /\ [][NextBadge]_vars

Applied(fn) == res # <<>> /\ res[1].fn = fn

\* C15: determineBadgeColor gives "critical" whenever Critical > 0, whatever
\* the other counts; else "orange" when High > 0; else "yellow" when
\* Medium > 0; else "yellowgreen" when Low > 0 or Other > 0; else
\* "brightgreen"; and never another color.
C15_BadgeColor ==
    Applied("determineBadgeColor") =>
        LET color == res[1].out
        IN  /\ color \in {StrCritical, StrOrange, StrYellow, StrYellowGreen,
                          StrBrightGreen}
            /\ arg.Critical > 0 => color = StrCritical
            /\ (arg.Critical = 0 /\ arg.High > 0) => color = StrOrange
            /\ (arg.Critical = 0 /\ arg.High = 0 /\ arg.Medium > 0) => color = StrYellow
            /\ (arg.Critical = 0 /\ arg.High = 0 /\ arg.Medium = 0
                /\ (arg.Low > 0 \/ arg.Other > 0)) => color = StrYellowGreen
            /\ (arg.Critical = 0 /\ arg.High = 0 /\ arg.Medium = 0 /\ arg.Low = 0
                /\ arg.Other = 0) => color = StrBrightGreen

\* critical and high counts together gave "critical"
C15_Witness ==
    /\ Applied("determineBadgeColor")
    /\ arg.Critical = 1
    /\ arg.High = 2
    /\ arg.Other = 1
    /\ res[1].out = StrCritical

\* the four named buckets in their fixed order
NamedBuckets(st) ==
    <<[n |-> st.Critical, label |-> StrSpCritical], [n |-> st.High, label |-> StrSpHigh],
      [n |-> st.Medium, label |-> StrSpMedium], [n |-> st.Low, label |-> StrSpLow]>>

\* C16: formatBadgeMessage gives "0" when Total is 0; otherwise the message
\* split at " | " is the list of "<n> critical", "<n> high", "<n> medium",
\* "<n> low" for exactly the non-zero buckets, in that order; when none of
\* the four is non-zero and Other is, it is "<n> other".
C16_BadgeMessage ==
    Applied("formatBadgeMessage") =>
        LET nonZero == SelectSeq(NamedBuckets(arg), LAMBDA b : b.n # 0)
            expected == [i \in 1..Len(nonZero) |->
                            Itoa(nonZero[i].n) \o nonZero[i].label]
        IN  IF arg.Total = 0 THEN res[1].out = StrZero
            ELSE IF Len(nonZero) = 0
            THEN arg.Other # 0 => res[1].out = Itoa(arg.Other) \o StrSpOther
            ELSE res[1].out = JoinStrings(expected, StrBar)

\* {Total: 5, Critical: 2, High: 2, Other: 1} gave "2 critical | 2 high"
C16_Witness ==
    /\ Applied("formatBadgeMessage")
    /\ arg = [Total |-> 5, Critical |-> 2, High |-> 2, Medium |-> 0, Low |-> 0,
              Other |-> 1]
    /\ res[1].out = <<50, 32, 99, 114, 105, 116, 105, 99, 97, 108, 32, 124, 32,
                      50, 32, 104, 105, 103, 104>>

(***************************************************************************)
(* Further claims about a whole run, checked under Spec.                   *)
(***************************************************************************)
\* the scanner exited non-zero and wrote nothing to the output path
NonZeroWithoutOutput ==
    /\ grype.outcome = "nonzero"
    /\ grype.fileAfter \in {"empty", "removed"}

\* C17: in a run, once the scanner has exited non-zero without producing
\* output, executeScan has failed with the "grype scan failed" error: the
\* output is not read or parsed, and the run ends with that error.
C17_NoOutputIsScanFailure ==
    NonZeroWithoutOutput =>
        /\ pc \in {"cleanup", "done"}
        /\ ScanFailedError

\* a checkout was asked for a ref with a defect and has returned
BadRefReturned ==
    /\ ref # EmptyStr
    /\ RefDefect(ref)
    /\ pc # "checkoutToWorktree"

\* C18: 'git worktree add' never runs with a ref that has one of the defects
\* validateRefName rejects, be it the scan input or the resolved latest tag;
\* for such a ref no temp directory is created, the "invalid ref" error comes
\* back with no target and no temp dir, and the run ends with it before the
\* scanner or its database update runs.
C18_RefValidatedBeforeGit ==
    /\ \A i \in 1..Len(gitLog) :
          gitLog[i].cmd = "worktree add" => ~RefDefect(gitLog[i].arg)
    /\ BadRefReturned =>
          /\ pc \in {"targetReturned", "done"}
          /\ Len(err) >= 2 /\ err[1] = "failed to checkout" /\ err[2] = "invalid ref"
          /\ target = EmptyStr
          /\ tempDir = EmptyStr
          /\ tmpDirs = {}
          /\ worktrees = {}
          /\ ~FsDid("MkdirTemp")
          /\ ~GitRan("worktree add")
          /\ grype = NoGrype
          /\ scratch = "none"
          /\ pc = "done" => runErr = Wrap("failed to determine scan target", err)

\* the resolved latest tag "v1..0" was rejected and the run has ended
C18_Witness ==
    /\ BadRefReturned
    /\ ref = StrBadTag
    /\ config.Scan = EmptyStr
    /\ pc = "done"
    /\ runErr[1] = "failed to determine scan target"

RunReturned == pc = "done"

\* C19: when run has returned, cleanupWorktree has been called exactly once,
\* for the temp dir determineScanTarget returned, if that was non-empty,
\* whatever the run ended with; it is never called twice, and never called
\* when no temp dir was returned.
C19_CleanupOnEveryExit ==
    /\ cleanupCalls <= 1
    /\ tempDir = EmptyStr =>
          /\ cleanupCalls = 0
          /\ ~GitRan("worktree remove")
    /\ cleanupCalls = 1 =>
          /\ RunReturned
          /\ gitLog[Len(gitLog)] = GitCmd("worktree remove", tempDir)
          /\ fsLog[Len(fsLog)].op = "RemoveAll"
          /\ fsLog[Len(fsLog)].path = tempDir
    /\ (RunReturned /\ tempDir # EmptyStr) => cleanupCalls = 1

\* a run on a worktree that ended with the fail-build error has cleaned up
C19_Witness ==
    /\ RunReturned
    /\ tempDir = StrTmpWorktree
    /\ VulnerabilityError
    /\ cleanupCalls = 1

\* executeScan has returned to run
ExecuteScanReturned ==
    pc \in {"processResults", "setOutputs", "failCheck", "cleanup", "done"}

\* C20: once executeScan has returned, the scratch file it created, if it
\* created one, is deleted, on every exit path: success, close failure, scan
\* failure, read failure, parse failure, copy failure.
C20_ScratchFileRemoved ==
    ExecuteScanReturned => scratch \in {"none", "removed"}

(***************************************************************************)
(* SpecCleanup: cleanupWorktree called, up to MaxCleanups times, with the  *)
(* empty path or the worktree path, in every state handleRepoScan can      *)
(* leave behind.  res is the list of the paths it was called with.         *)
(***************************************************************************)
MaxCleanups == 2

CallCleanupWorktree ==
    /\ pc = "targetReturned"
    /\ Len(res) < MaxCleanups
    /\ \E worktreeDir \in {EmptyStr, StrTmpWorktree} :
          /\ cleanupWorktree(worktreeDir)
          /\ res' = Append(res, worktreeDir)
    /\ cleanupCalls' = cleanupCalls + 1
    /\ UNCHANGED <<config, pc, targetLocals, target, tempDir, err, env, deferred,
                   scratch, grype, report, gist, outputs, summaryPrinted, runErr,
                   arg>>

NextCleanup == NextTarget \/ CallCleanupWorktree

SpecCleanup == InitTarget /\ [][NextCleanup]_vars

\* the step is a call of cleanupWorktree
CleanupStep == pc = "targetReturned" /\ res' # res

\* the path the call of this step was given
CleanupPath == res'[Len(res')]

\* C21: a call of cleanupWorktree returns to its caller without an error and
\* without touching the caller's state; with the empty path it does nothing;
\* otherwise it runs git worktree remove and then, whatever git said, removes
\* the directory; failures only add warnings; a call on a path that is
\* already gone changes neither the directories nor the worktrees.
C21_CleanupBestEffort ==
    [][CleanupStep =>
         /\ UNCHANGED <<pc, err, runErr, target, tempDir>>
         /\ CleanupPath = EmptyStr
               => UNCHANGED <<gitLog, fsLog, warnings, tmpDirs, worktrees>>
         /\ CleanupPath # EmptyStr
               => /\ gitLog' = Append(gitLog, GitCmd("worktree remove", CleanupPath))
                  /\ Len(fsLog') = Len(fsLog) + 1
                  /\ fsLog'[Len(fsLog')].op = "RemoveAll"
                  /\ fsLog'[Len(fsLog')].path = CleanupPath
                  /\ fsLog'[Len(fsLog')].result = "ok" => CleanupPath \notin tmpDirs'
                  /\ Len(warnings') >= Len(warnings)
                  /\ SubSeq(warnings', 1, Len(warnings)) = warnings
                  /\ tmpDirs' \subseteq tmpDirs
                  /\ worktrees' \subseteq worktrees
         /\ (CleanupPath \notin tmpDirs /\ ~\E w \in worktrees : w.path = CleanupPath)
               => UNCHANGED <<tmpDirs, worktrees>>
    ]_vars

\* cleanupWorktree was called twice on the worktree path, git worktree remove
\* failed, and the directory is gone
C21_Witness ==
    /\ Len(res) = 2
    /\ res[1] = StrTmpWorktree
    /\ res[2] = StrTmpWorktree
    /\ \E i \in 1..Len(warnings) : warnings[i] = "git worktree remove failed"
    /\ StrTmpWorktree \notin tmpDirs

\* getLatestReleaseTag went past the fetch, which failed
FetchFailed == GitRan("fetch") /\ ~env.remote

\* what getLatestReleaseTag makes of the tags git lists, whatever the fetch did
ResultOfListing ==
    IF listedTags # <<>>
    THEN /\ ref = FirstStable(listedTags)
         /\ err = NoErr \/ err[1] = "failed to checkout"
    ELSE /\ pc = "targetReturned"
         /\ target = EmptyStr
         /\ err \in {NoTagsError,
                     <<"could not determine latest release", "failed to list tags">>}
         /\ (err = NoTagsError) <=> (tags # <<>>)

\* C22: when `git fetch --tags` fails getLatestReleaseTag prints the warning
\* "Could not fetch tags" once, goes on to list the tags, and returns what the
\* listed tags give: their first stable tag (or first tag), or the no-tags
\* error, which is what it returns from the same tags after a fetch that
\* succeeded, where it prints no such warning; a failed fetch is never an error.
C22_FetchFailureNonFatal ==
    GitRan("fetch") =>
        /\ Len(SelectSeq(warnings, LAMBDA w : w = "Could not fetch tags"))
              = (IF FetchFailed THEN 1 ELSE 0)
        /\ GitRan("tag")
        /\ ResultOfListing

\* the fetch failed and the latest stable tag of the local tags was returned
C22_Witness ==
    /\ FetchFailed
    /\ listedTags = <<StrV210rc1, StrV200>>
    /\ ref = StrV200
    /\ pc = "checkoutToWorktree"

\* how many file-system calls of the kind op the run has made
FsCount(op) == Len(SelectSeq(fsLog, LAMBDA c : c.op = op))

\* C23: in a run the scanner scan is spawned at most once, the gist request
\* is sent at most once, and only with both gist token and gist ID set, and
\* the output file is copied at most once; a failed one ends in a warning or in
\* the run's return, never in a second attempt.
C23_AtMostOnce ==
    /\ grype.runs <= 1
    /\ grype.dbRuns <= 1
    /\ gist.calls <= 1
    /\ gist.calls = 1 => GistConfigured
    /\ FsCount("MkdirAll") <= 1
    /\ FsCount("WriteFile") <= 1
    /\ (pc = "done" /\ grype.runs = 1 /\ grype.outcome = "start failed")
          => runErr # NoErr /\ gist.calls = 0 /\ FsCount("WriteFile") = 0
    /\ (\E i \in 1..Len(fsLog) : fsLog[i].op = "WriteFile" /\ fsLog[i].result = "failed")
          => pc \in {"cleanup", "done"}
             /\ runErr = <<"failed to copy output file", "WriteFile">>
    /\ GistFailed => gist.calls = 1

\* a run that spawned the scanner, copied the output file and sent a gist
\* request that failed, and went on to its end
C23_Witness ==
    /\ pc = "done"
    /\ grype.runs = 1
    /\ FsCount("WriteFile") = 1
    /\ gist.calls = 1
    /\ GistFailed

(***************************************************************************)
(* SpecResolve: resolveDestinationPath applied to every short path in      *)
(* every environment of CopyEnvs.                                          *)
(***************************************************************************)
InitResolve ==
    /\ RunIdle
    /\ arg \in [destPath : StringsUpTo(PathAlphabet, MaxPathLen), e : CopyEnvs]
    /\ res = <<>>

ApplyResolveDestinationPath ==
    /\ pc = "idle"
    /\ res = <<>>
    /\ res' = <<resolveDestinationPath(arg.destPath, arg.e)>>
    /\ UNCHANGED <<runVars, arg>>

NextResolve == ApplyResolveDestinationPath

SpecResolve == InitResolve /\ [][NextResolve]_vars

\* the path starts with a slash
StartsWithSlash(p) == p # EmptyStr /\ p[1] = 47

StrLess(a, b) ==
    \E k \in 1..(Len(b)) :
        /\ \A i \in 1..(k - 1) : i <= Len(a) /\ a[i] = b[i]
        /\ (k > Len(a) \/ (k <= Len(a) /\ a[k] < b[k]))
        /\ k - 1 <= Len(a)

\* severityOrder comparing the severity as it is spelled
severityOrderCaseSensitive(severity) ==
    IF severity = StrCritical THEN 0
    ELSE IF severity = StrHigh THEN 1
    ELSE IF severity = StrMedium THEN 2
    ELSE IF severity = StrLow THEN 3
    ELSE 4

\* severityOrder(severity)
severityOrder(severity) ==
    LET l == ToLower(severity)
    IN  IF l = StrCritical THEN 0
        ELSE IF l = StrHigh THEN 1
        ELSE IF l = StrMedium THEN 2
        ELSE IF l = StrLow THEN 3
        ELSE 4

\* the less function sortMatches hands to sort.Slice
matchLess(a, b) ==
    LET si == severityOrder(a.Severity)
        sj == severityOrder(b.Severity)
    IN  IF si # sj THEN si < sj ELSE StrLess(a.ID, b.ID)

\* the orders of the elements of a slice
permutationsOf(m) ==
    {[i \in 1..Len(m) |-> m[f[i]]] :
        f \in {g \in [1..Len(m) -> 1..Len(m)] :
                  \A i, j \in 1..Len(m) : g[i] = g[j] => i = j}}

\* what sort.Slice can leave in the copy: the elements in an order in which
\* no element is less than one before it; the order of elements of which
\* neither is less than the other is not specified by sort.Slice
sortMatches(matches) ==
    {p \in permutationsOf(matches) :
        \A i, j \in 1..Len(p) : i < j => ~matchLess(p[j], p[i])}

StrCve1 == <<67, 86, 69, 45, 48, 48, 48, 49>>  \* "CVE-0001"
StrCve2 == <<67, 86, 69, 45, 48, 48, 48, 50>>  \* "CVE-0002"
StrPkgA == <<112, 107, 103, 49>>  \* "pkg1"
StrPkgB == <<112, 107, 103, 50>>  \* "pkg2"

Match(id, sev, name) == [ID |-> id, Severity |-> sev, Name |-> name]

\* the matches of the reports that are sorted: every rank, severities in
\* several spellings, and the same vulnerability found in two packages
SortMatchUniverse ==
    {Match(StrCve2, SevCritical, StrPkgA), Match(StrCve1, StrCritical, StrPkgB),
     Match(StrCve1, SevHigh, StrPkgA), Match(StrCve1, StrHigh, StrPkgB),
     Match(StrCve2, SevMedium, StrPkgA), Match(StrCve1, SevLow, StrPkgA),
     Match(StrCve1, SevUnknown, StrPkgA), Match(StrCve1, SevNegligible, StrPkgB)}

(***************************************************************************)
(* SpecSort: sortMatches applied to every list of up to MaxSortLen         *)
(* matches.  arg is the caller's slice; res holds the slice as it was      *)
(* before the call and the slice returned.                                 *)
(***************************************************************************)
MaxSortLen == 3

InitSort ==
    /\ RunIdle
    /\ arg \in StringsUpTo(SortMatchUniverse, MaxSortLen)
    /\ res = <<>>

ApplySortMatches ==
    /\ pc = "idle"
    /\ res = <<>>
    /\ \E sorted \in sortMatches(arg) :
          res' = <<[matches |-> arg, sorted |-> sorted]>>
    /\ UNCHANGED <<runVars, arg>>

NextSort == ApplySortMatches

SpecSort == InitSort /\ [][NextSort]_vars

\* the rank the report gives a severity
StatedRank(sev) ==
    CASE ToLower(sev) = StrCritical -> 0
      [] ToLower(sev) = StrHigh -> 1
      [] ToLower(sev) = StrMedium -> 2
      [] ToLower(sev) = StrLow -> 3
      [] OTHER -> 4

\* how often the match x occurs in the list m
Occurrences(m, x) == Cardinality({i \in 1..Len(m) : m[i] = x})

\* C25: the list sortMatches returns holds the matches of its input, each as
\* often as the input does, ordered by severity rank (critical, high, medium,
\* low, then the rest, whatever the case of the letters) and within a rank by
\* vulnerability ID ascending; the caller's list is as it was before the call.
C25_SortMatches ==
    res # <<>> =>
        LET in == res[1].matches
            out == res[1].sorted
        IN  /\ arg = in
            /\ Len(out) = Len(in)
            /\ \A x \in SortMatchUniverse : Occurrences(out, x) = Occurrences(in, x)
            /\ \A i, j \in 1..Len(out) :
                  i < j =>
                     /\ StatedRank(out[i].Severity) <= StatedRank(out[j].Severity)
                     /\ StatedRank(out[i].Severity) = StatedRank(out[j].Severity)
                           => ~StrLess(out[j].ID, out[i].ID)

\* a list given in the reverse order, with severities in upper and mixed
\* case, came back sorted and the caller's list is still in reverse order
C25_Witness ==
    /\ res # <<>>
    /\ arg = <<Match(StrCve1, SevLow, StrPkgA), Match(StrCve1, SevHigh, StrPkgA),
               Match(StrCve2, SevCritical, StrPkgA)>>
    /\ res[1].sorted = <<Match(StrCve2, SevCritical, StrPkgA),
                         Match(StrCve1, SevHigh, StrPkgA),
                         Match(StrCve1, SevLow, StrPkgA)>>

\* the list with x put behind the elements of sorted that are not after it
InsertStable(sorted, x) ==
    LET before == {i \in 1..Len(sorted) : ~matchLess(x, sorted[i])}
        k == IF before = {} THEN 0
             ELSE CHOOSE i \in before : \A j \in before : j <= i
    IN  SubSeq(sorted, 1, k) \o <<x>> \o SubSeq(sorted, k + 1, Len(sorted))

RECURSIVE StableSort(_)
\* the stable sort of m
StableSort(m) ==
    IF m = <<>> THEN <<>>
    ELSE InsertStable(StableSort(SubSeq(m, 1, Len(m) - 1)), m[Len(m)])

\* C26: matches of the same severity rank and the same vulnerability ID
\* appear in the list sortMatches returns in the order they have in its input.
C26_SortStable ==
    res # <<>> => res[1].sorted = StableSort(res[1].matches)

(***************************************************************************)
(* SpecStrip: stripCommitHash applied to short URLs with and without a     *)
(* "/raw/" segment.                                                        *)
(***************************************************************************)
MaxUrlTail == 4

UrlAlphabet == {47, 97, 114, 119}  \* '/', 'a', 'r', 'w'

\* URLs "<x>/raw/<tail>" and short URLs, most of them without "/raw/"
StripInputs ==
    {x \o StrRaw \o t : x \in StringsUpTo(UrlAlphabet, 1),
                        t \in StringsUpTo(UrlAlphabet, MaxUrlTail)}
    \cup StringsUpTo(UrlAlphabet, MaxUrlTail)

InitStrip ==
    /\ RunIdle
    /\ arg \in StripInputs
    /\ res = <<>>

ApplyStripCommitHash ==
    /\ pc = "idle"
    /\ res = <<>>
    /\ res' = <<stripCommitHash(arg)>>
    /\ UNCHANGED <<runVars, arg>>

NextStrip == ApplyStripCommitHash

SpecStrip == InitStrip /\ [][NextStrip]_vars

\* path.Base: the last element of a path, trailing slashes dropped
Base(p) ==
    IF p = EmptyStr THEN StrDot
    ELSE LET t == IF \A i \in 1..Len(p) : p[i] = 47 THEN EmptyStr
                  ELSE SubSeq(p, 1, CHOOSE k \in 1..Len(p) :
                                       p[k] # 47 /\ \A j \in (k + 1)..Len(p) : p[j] = 47)
             slashes == {i \in 1..Len(t) : t[i] = 47}
             b == IF slashes = {} THEN t
                  ELSE SubSeq(t, (CHOOSE i \in slashes : \A j \in slashes : j <= i) + 1,
                              Len(t))
         IN  IF b = EmptyStr THEN Slash ELSE b

\* C27: stripCommitHash returns a URL without "/raw/", or with no '/' after
\* its first "/raw/", unchanged; otherwise it drops the segment after the
\* first "/raw/", up to and with the next '/', and nothing else; the result
\* of a URL that contains "/raw/" contains "/raw/" and has the base name of
\* the URL.
C27_StripCommitHash ==
    res # <<>> =>
        LET idx == Index(arg, StrRaw)
            rest == SubSeq(arg, idx + 5, Len(arg))
            got == res[1]
        IN  /\ idx = 0 => got = arg
            /\ (idx > 0 /\ ~Contains(rest, Slash)) => got = arg
            /\ (idx > 0 /\ Contains(rest, Slash))
                  => \E k \in 1..Len(rest) :
                        /\ rest[k] = 47
                        /\ \A i \in 1..(k - 1) : rest[i] # 47
                        /\ got = SubSeq(arg, 1, idx + 4) \o SubSeq(rest, k + 1, Len(rest))
            /\ idx > 0 => Contains(got, StrRaw) /\ Base(got) = Base(arg)

\* C28: processResults returns the fail-build error only after setOutputs
\* has returned without error and the summary has been printed: with
\* GITHUB_OUTPUT set every step output has been written by then, without it
\* setOutputs has warned and written nothing.  When setOutputs fails its error
\* is returned and neither the summary nor the fail-build check is reached.
C28_OutputsBeforeVerdict ==
    ResultsReturned =>
        /\ VulnerabilityError =>
              /\ summaryPrinted
              /\ env.githubOutput => outputs.written = "all" /\ Len(outputs.lines) = 1
              /\ ~env.githubOutput
                    => outputs = NoOutputs /\ Warned("GITHUB_OUTPUT not set")
        /\ SetOutputsFailed =>
              /\ env.githubOutput
              /\ ~summaryPrinted
              /\ outputs.written \in {"none", "partial"}
        /\ outputs.written = "partial" => SetOutputsFailed

\* the build failed on the cutoff after all step outputs were written
C28_Witness ==
    /\ ResultsReturned
    /\ VulnerabilityError
    /\ summaryPrinted
    /\ env.githubOutput
    /\ outputs.written = "all"

\* C28 as stated: whenever the fail-build error is returned all step
\* outputs have been written and the summary printed; a setOutputs failure
\* is returned before the fail-build check.
C28_Original ==
    ResultsReturned =>
        /\ VulnerabilityError => summaryPrinted /\ outputs.written = "all"
        /\ SetOutputsFailed => ~summaryPrinted

\* handleRepoScan was entered
RepoScanEntered == scanMode # EmptyStr

\* handleRepoScan scanned the current checkout
ScansCheckout == target = StrDirDot

\* handleRepoScan went to resolve the latest release
ResolvesLatest ==
    \/ pc = "getLatestReleaseTag"
    \/ GitRan("tag")
    \/ (err # NoErr /\ err[1] = "could not determine latest release")

\* C29: in repository mode determineScanMode gives "head" exactly when
\* handleRepoScan scans the current checkout, "release" exactly when it
\* resolves and checks out the latest release, and "ref" exactly when it
\* checks out the given string as a ref, also for scan values that differ
\* from "head" and "latest_release" in letter case or surrounding whitespace.
C29_ScanModeLabelAgrees ==
    RepoScanEntered =>
        LET label == determineScanMode(config)
        IN  /\ label = StrHead <=> ScansCheckout
            /\ label = StrModeRelease <=> ResolvesLatest
            /\ label = StrModeRef <=> (~ScansCheckout /\ ~ResolvesLatest)

\* target resolution has failed
TargetFailed == TargetReturned /\ err # NoErr

\* git worktree add was run and failed
WorktreeAddFailed ==
    /\ TargetFailed
    /\ GitRan("worktree add")
    /\ err[Len(err)] = "failed to create worktree"

\* C30: when git worktree add fails checkoutToWorktree removes the temp
\* directory it made and returns an error with an empty path; after a failed
\* target resolution no temp directory and no worktree made by it is left and
\* the caller is handed no directory to clean up.
C30_FailedCheckoutLeaksNothing ==
    /\ TargetFailed =>
          /\ target = EmptyStr
          /\ tempDir = EmptyStr
          /\ tmpDirs = {}
          /\ worktrees = {}
    /\ WorktreeAddFailed =>
          /\ fsLog[Len(fsLog)].op = "RemoveAll"
          /\ fsLog[Len(fsLog)].path = StrTmpWorktree

=============================================================================
